---- MODULE Spec2Model ----
(***************************************************************************)
(* Client-side resilience core of the agent fabric: the circuit breaker    *)
(* and its unary interceptor, the retry interceptor, the connection pool   *)
(* and the stream checkpoint manager.  Each component has its own          *)
(* specification over the shared variable tuple; the variables of the      *)
(* other components stay at their initial value.                           *)
(***************************************************************************)
EXTENDS Integers, Sequences, FiniteSets, TLC

\* ------------------------------------------------------------------ bounds
\* concurrent unary calls through one breaker
NumCalls == 4
\* the clock runs 0..MaxTime
MaxTime == 3
\* concurrent unary calls through one RetryInterceptor
NumRetryCalls == 2
\* max_attempts of the policy whose backoffs are calculated
MaxAttempts == 3
\* messages one ResumableStreamWrapper receives
MaxMessages == 1
\* direct calls of the checkpoint manager in one behaviour
MaxApiCalls == 2
\* outcomes recorded on one CircuitBreaker called directly
MaxRecorded == 5
\* callers of ConnectionPool.acquire, one scope each
NumCallers == 3
\* connections the factory makes in one behaviour, initialize() included
MaxConnections == 3
\* samples recorded on one TimeoutManager
MaxSamples == 11
\* outcomes reported to one LoadBalancer, raising health checks included
MaxReports == 3
\* calls counted in flight on the endpoints of one balancer
MaxInflight == 1
\* logical calls made through one ResilientGrpcClient
MaxPipeCalls == 2
\* the configurations tried: failure_threshold, success_threshold and
\* half_open_max_calls in Thresholds, reset_timeout in ResetTimeouts
Thresholds == {1, 2}
ResetTimeouts == {0, 1}
\* the breaker configurations of the interceptor: every combination
\* without a fallback, and with a fallback those of success_threshold 1
CbConfigs ==
    {cfg \in [failure_threshold : Thresholds,
              success_threshold : Thresholds,
              reset_timeout : ResetTimeouts,
              half_open_max_calls : Thresholds,
              fallback : BOOLEAN] :
        cfg.fallback => cfg.success_threshold = 1}
\* the max_attempts values of the policies the concurrent calls run under
AttemptLimits == {1, 2, 3}

\* ------------------------------------------------------------------ helpers
Min(a, b) == IF a <= b THEN a ELSE b
Max(a, b) == IF a >= b THEN a ELSE b

\* Optional[...] = None for a time or a connection
None == -1

\* grpc.StatusCode values the model draws failures from
Codes == {"UNAVAILABLE", "ABORTED", "NOT_FOUND"}

VARIABLES
    now,        \* time.time()
    cb_config,  \* CircuitBreakerConfig, and whether the interceptor has a fallback
    breaker,    \* CircuitBreaker fields
    calls,      \* one unary call per slot: where it is in intercept_unary_unary
    outcome,    \* what the call that finished last gave its caller
    scenario,   \* history: progress of the trip-and-recover sequence of operations
    cb_op,      \* history: the last method called on the CircuitBreaker itself, and the state it found
    retry_policy,   \* RetryPolicy
    retry_metrics,  \* RetryInterceptor._total_retries, ._successful_retries
    rcalls,         \* one unary call per slot through RetryInterceptor
    backoff_policy, \* RetryPolicy: initial_backoff, max_backoff, backoff_multiplier, jitter
    backoffs,       \* what _calculate_backoff returned for attempt 0, 1, ... in tenths of a second
    sc_config,  \* StreamCheckpointManager: checkpoint_interval, max_streams, ttl
    streams,    \* StreamCheckpointManager._streams, in dict (insertion) order
    wrappers,   \* one ResumableStreamWrapper per slot, iterated once
    api_calls,  \* how many direct calls of the manager have been made
    pool_config,    \* PoolConfig: min_size, max_size
    pool,           \* ConnectionPool fields, with is_healthy and idle time of the connections
    pcallers,       \* one caller per slot: where it is in acquire(), and what it saw
    pool_outcome,   \* history: how the async-with statement that ended last went
    tm_config,      \* TimeoutConfig
    response_times, \* TimeoutManager._response_times: the window of each key
    tm_op,          \* history: the last call made on the TimeoutManager and what it returned
    fb_config,      \* FallbackConfig
    fb_cache,       \* FallbackCache._cache, in dict (insertion) order
    fb_handlers,    \* FallbackManager._custom_handlers: what the handler of a service does
    fb_rules,       \* RuleBasedFallback._rules, in dict (insertion) order
    fb_sets,        \* history: the last set of each cache key, and whether it was evicted or cleared
    fb_op,          \* history: the last call made on the FallbackManager or its cache
    lb_config,      \* LoadBalancer: which strategy it has, whether a health checker is set
    lb_endpoints,   \* LoadBalancer._endpoints
    lb_index,       \* RoundRobinStrategy._index
    lb_connections, \* LeastConnectionsStrategy._connections
    lb_op,          \* history: the last call made on the balancer and the endpoint it gave or got
    lb_picks,       \* history: the last round-robin selections since the healthy set changed
    lb_reports,      \* history: how many outcomes were reported to the balancer
    pipe_config,    \* ResilientClientConfig: the service name of the client
    pipe            \* the logical call of the ResilientGrpcClient: position and history

cbVars == <<cb_config, breaker, calls, outcome, scenario, cb_op>>
retryVars == <<retry_policy, retry_metrics, rcalls, backoff_policy, backoffs>>
streamVars == <<sc_config, streams, wrappers, api_calls>>
poolVars == <<pool_config, pool, pcallers, pool_outcome>>
tmVars == <<tm_config, response_times, tm_op>>
\* the components that read no clock and share nothing with the others
fbVars == <<fb_config, fb_cache, fb_handlers, fb_rules, fb_sets, fb_op>>
lbVars == <<lb_config, lb_endpoints, lb_index, lb_connections, lb_op, lb_picks,
           lb_reports>>
plVars == <<pipe_config, pipe>>
extVars == <<tmVars, fbVars, lbVars, plVars>>
vars == <<now, cbVars, retryVars, streamVars, poolVars, extVars>>

\* what the actions of one component leave alone
notCb == <<cb_op, retryVars, streamVars, poolVars, extVars>>
notBreakerApi == <<calls, outcome, scenario, retryVars, streamVars, poolVars, extVars>>
notRetry == <<now, cbVars, streamVars, poolVars, backoff_policy, backoffs, extVars>>
notBackoff == <<now, cbVars, streamVars, poolVars, retry_policy, retry_metrics, rcalls, extVars>>
notStream == <<cbVars, retryVars, poolVars, extVars>>
notPool == <<now, cbVars, retryVars, streamVars, extVars>>
notTimeout == <<now, cbVars, retryVars, streamVars, poolVars, fbVars, lbVars, plVars>>
notFallback == <<cbVars, retryVars, streamVars, poolVars, tmVars, lbVars, plVars>>
notLb == <<now, cbVars, retryVars, streamVars, poolVars, tmVars, fbVars, plVars>>

\* ================================================================= breaker
\* CircuitBreakerConfig.failure_status_codes default, cut to Codes
failure_status_codes == {"UNAVAILABLE", "DEADLINE_EXCEEDED", "RESOURCE_EXHAUSTED", "INTERNAL", "UNKNOWN"}

\* CircuitBreaker._should_attempt_reset at time t
ShouldAttemptReset(b, t) ==
    IF b.last_failure_time = None THEN FALSE
    ELSE t - b.last_failure_time >= cb_config.reset_timeout

\* CircuitBreaker.state property at time t: OPEN reads as HALF_OPEN once the
\* timeout has elapsed; the stored _state is not changed by the read
StateAt(b, t) ==
    IF b.state = "open" /\ ShouldAttemptReset(b, t) THEN "half_open" ELSE b.state

\* mutant of TransitionTo: entering CLOSED keeps failure_count
TransitionTo_KeepsFailureCount(b, new_state) ==
    [b EXCEPT !.state = new_state,
              !.success_count = 0,
              !.half_open_calls = 0,
              !.state_changes = @ + 1]

\* CircuitBreaker._transition_to
TransitionTo(b, new_state) ==
    [b EXCEPT !.state = new_state,
              !.failure_count = IF new_state = "closed" THEN 0 ELSE @,
              !.success_count = 0,
              !.half_open_calls = 0,
              !.state_changes = @ + 1]

\* mutant of CanExecute: OPEN admits like CLOSED
CanExecute_OpenAdmits(b, t) ==
    LET current_state == StateAt(b, t) IN
    CASE current_state \in {"closed", "open"} -> <<TRUE, b>>
      [] current_state = "half_open" ->
            IF b.half_open_calls < cb_config.half_open_max_calls
            THEN <<TRUE, [b EXCEPT !.half_open_calls = @ + 1]>>
            ELSE <<FALSE, b>>

\* CircuitBreaker.can_execute at time t: <<admitted, breaker afterwards>>
CanExecute(b, t) ==
    LET current_state == StateAt(b, t) IN
    CASE current_state = "closed" -> <<TRUE, b>>
      [] current_state = "open" -> <<FALSE, b>>
      [] current_state = "half_open" ->
            IF b.half_open_calls < cb_config.half_open_max_calls
            THEN <<TRUE, [b EXCEPT !.half_open_calls = @ + 1]>>
            ELSE <<FALSE, b>>

\* mutant of RecordSuccess: a success in CLOSED leaves failure_count alone
RecordSuccess_KeepsFailureCount(b, t) ==
    LET b1 == [b EXCEPT !.total_calls = @ + 1, !.total_successes = @ + 1]
        current_state == StateAt(b1, t)
    IN  CASE current_state = "half_open" ->
                LET b2 == [b1 EXCEPT !.success_count = @ + 1] IN
                IF b2.success_count >= cb_config.success_threshold
                THEN TransitionTo(b2, "closed") ELSE b2
          [] OTHER -> b1

\* CircuitBreaker.record_success at time t
RecordSuccess(b, t) ==
    LET b1 == [b EXCEPT !.total_calls = @ + 1, !.total_successes = @ + 1]
        current_state == StateAt(b1, t)
    IN  CASE current_state = "half_open" ->
                LET b2 == [b1 EXCEPT !.success_count = @ + 1] IN
                IF b2.success_count >= cb_config.success_threshold
                THEN TransitionTo(b2, "closed") ELSE b2
          [] current_state = "closed" ->
                IF b1.failure_count > 0
                THEN [b1 EXCEPT !.failure_count = @ - 1] ELSE b1
          [] OTHER -> b1

\* mutant of RecordFailure: every status code counts as a failure
RecordFailure_CountsEveryCode(b, t, status_code) ==
    LET b1 == [b EXCEPT !.total_calls = @ + 1, !.total_failures = @ + 1,
                        !.last_failure_time = t]
        current_state == StateAt(b1, t)
    IN  CASE current_state = "half_open" -> TransitionTo(b1, "open")
          [] current_state = "closed" ->
                LET b2 == [b1 EXCEPT !.failure_count = @ + 1] IN
                IF b2.failure_count >= cb_config.failure_threshold
                THEN TransitionTo(b2, "open") ELSE b2
          [] OTHER -> b1

\* mutant of RecordFailure: _last_failure_time is set by the first failure only
RecordFailure_KeepsLastFailureTime(b, t, status_code) ==
    IF status_code # "None" /\ status_code \notin failure_status_codes THEN b
    ELSE
    LET b1 == [b EXCEPT !.total_calls = @ + 1, !.total_failures = @ + 1,
                        !.last_failure_time = IF @ = None THEN t ELSE @]
        current_state == StateAt(b1, t)
    IN  CASE current_state = "half_open" -> TransitionTo(b1, "open")
          [] current_state = "closed" ->
                LET b2 == [b1 EXCEPT !.failure_count = @ + 1] IN
                IF b2.failure_count >= cb_config.failure_threshold
                THEN TransitionTo(b2, "open") ELSE b2
          [] OTHER -> b1

\* CircuitBreaker.record_failure(status_code) at time t; the state is read
\* after _last_failure_time has been set to t
RecordFailure(b, t, status_code) ==
    IF status_code # "None" /\ status_code \notin failure_status_codes THEN b
    ELSE
    LET b1 == [b EXCEPT !.total_calls = @ + 1, !.total_failures = @ + 1,
                        !.last_failure_time = t]
        current_state == StateAt(b1, t)
    IN  CASE current_state = "half_open" -> TransitionTo(b1, "open")
          [] current_state = "closed" ->
                LET b2 == [b1 EXCEPT !.failure_count = @ + 1] IN
                IF b2.failure_count >= cb_config.failure_threshold
                THEN TransitionTo(b2, "open") ELSE b2
          [] OTHER -> b1

\* CircuitBreaker.__init__
InitBreaker ==
    [state |-> "closed", failure_count |-> 0, success_count |-> 0,
     last_failure_time |-> None, half_open_calls |-> 0,
     total_calls |-> 0, total_failures |-> 0, total_successes |-> 0,
     state_changes |-> 0]

IdleCall == [pc |-> "idle", admitted_in |-> "none", epoch |-> 0]
DoneCall == [pc |-> "done", admitted_in |-> "none", epoch |-> 0]

\* History of the sequence "failure_threshold counted failures from Closed,
\* reset_timeout elapses, success_threshold times (admitted check,
\* record_success)": phase "failures" counts the failures, "wait" follows the
\* last of them, "successes" counts the admitted successes (call is the
\* admitted call whose success is due), "done" is the state right after the
\* last success.  Any other operation that changes the breaker ends it.
ScenarioOff == [phase |-> "off", n |-> 0, call |-> 0]
ScenarioKeep == IF scenario.phase = "done" THEN ScenarioOff ELSE scenario
ScenarioAdmit(c, current_state) ==
    IF current_state = "half_open"
    THEN IF scenario.phase \in {"wait", "successes"} /\ scenario.call = 0
         THEN [phase |-> "successes", n |-> scenario.n, call |-> c]
         ELSE ScenarioOff
    ELSE ScenarioKeep
ScenarioSuccess(c) ==
    IF scenario.phase = "successes" /\ scenario.call = c
    THEN IF scenario.n + 1 = cb_config.success_threshold
         THEN [phase |-> "done", n |-> 0, call |-> 0]
         ELSE [phase |-> "successes", n |-> scenario.n + 1, call |-> 0]
    ELSE ScenarioOff
ScenarioFailure(current_state) ==
    LET k == IF scenario.phase = "failures" THEN scenario.n + 1 ELSE 1 IN
    IF \/ scenario.phase = "failures"
       \/ scenario.phase \in {"off", "done"} /\ current_state = "closed"
    THEN IF k = cb_config.failure_threshold
         THEN [phase |-> "wait", n |-> 0, call |-> 0]
         ELSE [phase |-> "failures", n |-> k, call |-> 0]
    ELSE ScenarioOff

\* calls are interchangeable: slot c starts after slot c - 1 has started
MayStart(c) ==
    /\ calls[c].pc = "idle"
    /\ IF c = 1 THEN TRUE ELSE calls[c - 1].pc # "idle"

\* CircuitBreakerInterceptor.intercept_unary_unary up to the await of the
\* continuation: the admission check and, on rejection, the second read of
\* the state (at a time t2 >= now) that picks the error or the fallback.
\* An uncontended asyncio.Lock does not suspend, so the check and the call
\* of the continuation are one step.
UnaryIntercept(c) ==
    /\ MayStart(c)
    /\ LET r == CanExecute(breaker, now) IN
       IF r[1]
       THEN /\ breaker' = r[2]
            /\ calls' = [calls EXCEPT ![c] = [pc |-> "inflight",
                                     admitted_in |-> StateAt(breaker, now),
                                     epoch |-> breaker.state_changes]]
            /\ now' = now
            /\ scenario' = ScenarioAdmit(c, StateAt(breaker, now))
            /\ outcome' = [result |-> "continuation", retry_after |-> 0]
       ELSE \E t2 \in now..Min(now + 1, MaxTime) :
            LET state == StateAt(r[2], t2)
                reset_time == cb_config.reset_timeout
                                - (t2 - Max(breaker.last_failure_time, 0))
            IN  /\ breaker' = r[2]
                /\ now' = t2
                /\ calls' = [calls EXCEPT ![c] = DoneCall]
                /\ scenario' = ScenarioKeep
                /\ outcome' = [result |-> IF cb_config.fallback THEN "fallback"
                                   ELSE "CircuitBreakerOpenError",
                        retry_after |-> IF state = "open" /\ ~cb_config.fallback
                                        THEN Max(0, reset_time) ELSE 0]
    /\ UNCHANGED <<cb_config, notCb>>

\* the continuation returns: record_success, then the response is returned
UnarySuccess(c) ==
    /\ calls[c].pc = "inflight"
    /\ breaker' = RecordSuccess(breaker, now)
    /\ calls' = [calls EXCEPT ![c] = DoneCall]
    /\ outcome' = [result |-> "response", retry_after |-> 0]
    /\ scenario' = ScenarioSuccess(c)
    /\ UNCHANGED <<now, cb_config, notCb>>

\* the continuation raises AioRpcError(code): record_failure(code), re-raise
UnaryFailure(c) ==
    /\ calls[c].pc = "inflight"
    /\ \E code \in Codes :
        /\ breaker' = RecordFailure(breaker, now, code)
        /\ calls' = [calls EXCEPT ![c] = DoneCall]
        /\ outcome' = [result |-> code, retry_after |-> 0]
        /\ scenario' = IF code \in failure_status_codes
                       THEN ScenarioFailure(StateAt(breaker, now))
                       ELSE ScenarioKeep
    /\ UNCHANGED <<now, cb_config, notCb>>

\* the continuation is cancelled or raises something that is no AioRpcError:
\* neither record_success nor record_failure runs
UnaryCancelled(c) ==
    /\ calls[c].pc = "inflight"
    /\ calls' = [calls EXCEPT ![c] = DoneCall]
    /\ outcome' = [result |-> "cancelled", retry_after |-> 0]
    /\ scenario' = ScenarioKeep
    /\ UNCHANGED <<now, cb_config, breaker, notCb>>

\* --- CircuitBreakerStreamInterceptor
\* intercept_unary_stream up to the await of the continuation: the
\* admission check; on rejection the state is read again (at a time
\* t2 >= now) and CircuitBreakerOpenError is raised when it reads OPEN;
\* when it reads anything else the method goes on to the continuation.
\* admitted_in is "none" for a call can_execute did not admit.
StreamIntercept(c) ==
    /\ MayStart(c)
    /\ LET r == CanExecute(breaker, now) IN
       IF r[1]
       THEN /\ breaker' = r[2]
            /\ calls' = [calls EXCEPT ![c] = [pc |-> "inflight",
                                     admitted_in |-> StateAt(breaker, now),
                                     epoch |-> breaker.state_changes]]
            /\ now' = now
            /\ outcome' = [result |-> "continuation", retry_after |-> 0]
       ELSE \E t2 \in now..Min(now + 1, MaxTime) :
            LET state == StateAt(r[2], t2)
                reset_time == cb_config.reset_timeout
                                - (t2 - Max(breaker.last_failure_time, 0))
            IN  /\ breaker' = r[2]
                /\ now' = t2
                /\ IF state = "open"
                   THEN /\ calls' = [calls EXCEPT ![c] = DoneCall]
                        /\ outcome' = [result |-> "CircuitBreakerOpenError",
                                       retry_after |-> Max(0, reset_time)]
                   ELSE /\ calls' = [calls EXCEPT ![c] = [pc |-> "inflight",
                                            admitted_in |-> "none",
                                            epoch |-> breaker.state_changes]]
                        /\ outcome' = [result |-> "continuation", retry_after |-> 0]
    /\ scenario' = ScenarioKeep
    /\ UNCHANGED <<cb_config, notCb>>

\* the continuation of the stream call returns the call object:
\* record_success, then the call object is returned
StreamSuccess(c) == UnarySuccess(c)

\* the continuation of the stream call raises AioRpcError(code):
\* record_failure(code), re-raise
StreamFailure(c) == UnaryFailure(c)

\* the continuation of the stream call is cancelled or raises something
\* that is no AioRpcError
StreamCancelled(c) == UnaryCancelled(c)

\* wall-clock time passes
Tick ==
    /\ now < MaxTime
    /\ now' = now + 1
    /\ scenario' = ScenarioKeep
    /\ UNCHANGED <<cb_config, breaker, calls, outcome, notCb>>

\* --- the CircuitBreaker called directly, one call at a time
\* status codes given to record_failure; "None" is the default argument
DirectCodes == Codes \cup {"None"}

\* failure_threshold and reset_timeout values of the directly called breaker
FailureThresholds == {1, 2, 3}
DirectResetTimeouts == {0, 1, 2}

\* await breaker.can_execute()
DoCanExecute ==
    /\ LET r == CanExecute(breaker, now) IN
        /\ breaker' = r[2]
        /\ cb_op' = [op |-> "can_execute", code |-> "None", was |-> StateAt(breaker, now),
                     admitted |-> r[1]]
    /\ UNCHANGED <<now, cb_config, notBreakerApi>>

\* await breaker.record_success()
DoRecordSuccess ==
    /\ breaker.total_calls < MaxRecorded
    /\ breaker' = RecordSuccess(breaker, now)
    /\ cb_op' = [op |-> "record_success", code |-> "None", was |-> StateAt(breaker, now),
                 admitted |-> FALSE]
    /\ UNCHANGED <<now, cb_config, notBreakerApi>>

\* await breaker.record_failure(status_code)
DoRecordFailure(status_code) ==
    /\ breaker.total_calls < MaxRecorded
    /\ breaker' = RecordFailure(breaker, now, status_code)
    /\ cb_op' = [op |-> "record_failure", code |-> status_code, was |-> StateAt(breaker, now),
                 admitted |-> FALSE]
    /\ UNCHANGED <<now, cb_config, notBreakerApi>>

\* time passes between two calls of the breaker
BreakerTick ==
    /\ now < MaxTime
    /\ now' = now + 1
    /\ cb_op' = [op |-> "none", code |-> "None", was |-> "closed", admitted |-> FALSE]
    /\ UNCHANGED <<cb_config, breaker, notBreakerApi>>

\* a breaker just constructed under configuration cfg, no call made yet
StartCb(cfg) ==
    /\ cb_config = cfg
    /\ breaker = InitBreaker
    /\ calls = [c \in 1..NumCalls |-> IdleCall]
    /\ outcome = [result |-> "none", retry_after |-> 0]
    /\ scenario = ScenarioOff
    /\ cb_op = [op |-> "none", code |-> "None", was |-> "closed", admitted |-> FALSE]

\* the breaker of the other components' specifications: never called
RestCb ==
    StartCb([failure_threshold |-> 1, success_threshold |-> 1, reset_timeout |-> 0,
             half_open_max_calls |-> 1, fallback |-> FALSE])


\* =================================================================== retry
\* RetryPolicy.retryable_status_codes default
retryable_status_codes == {"UNAVAILABLE", "DEADLINE_EXCEEDED", "RESOURCE_EXHAUSTED", "ABORTED"}

\* RetryInterceptor._is_retryable
\* mutant of IsRetryable: every status code is retried
IsRetryable_EveryCode(status_code) == status_code \in Codes

\* RetryInterceptor._is_retryable
IsRetryable(status_code) == status_code \in retryable_status_codes

\* the calls whose loop has ended
RetryDone == {c \in 1..NumRetryCalls : rcalls[c].pc = "done"}

\* mutant of AttemptsRemain: the last attempt counts as having one after it
AttemptsRemain_OffByOne(attempt) == attempt < retry_policy.max_attempts

\* the test "attempt < self.policy.max_attempts - 1" of the except branch
AttemptsRemain(attempt) == attempt < retry_policy.max_attempts - 1

\* --- _calculate_backoff.  Backoffs are whole seconds, jitter is in tenths,
\* and the value returned is in tenths of a second
\* the RetryPolicy values tried
BackoffPolicies ==
    [initial_backoff : {1, 2}, max_backoff : {1, 3, 4},
     backoff_multiplier : {1, 2, 3}, jitter : {0, 2, 5}]

\* b ** e
RECURSIVE Pow(_, _)
Pow(b, e) == IF e = 0 THEN 1 ELSE b * Pow(b, e - 1)

\* the values random.uniform(a, b) is given here: both ends and the middle
Uniform(a, b) == {a, b, (a + b) \div 2}

\* mutant of CappedBackoff: max_backoff is not applied
CappedBackoff_NoCap(policy, attempt) ==
    policy.initial_backoff * Pow(policy.backoff_multiplier, attempt)

\* backoff = min(initial_backoff * backoff_multiplier ** attempt, max_backoff)
CappedBackoff(policy, attempt) ==
    Min(policy.initial_backoff * Pow(policy.backoff_multiplier, attempt),
        policy.max_backoff)

\* jitter_range = jitter * backoff, in tenths of a second
JitterRange(policy, attempt) == policy.jitter * CappedBackoff(policy, attempt)

\* RetryInterceptor._calculate_backoff(attempt), random.uniform giving u
CalculateBackoff(policy, attempt, u) == 10 * CappedBackoff(policy, attempt) + u

\* the backoff for the next attempt is calculated
DoCalculateBackoff ==
    /\ Len(backoffs) < MaxAttempts - 1
    /\ LET attempt == Len(backoffs)
           jitter_range == JitterRange(backoff_policy, attempt)
       IN  \E u \in Uniform(-jitter_range, jitter_range) :
               backoffs' = Append(backoffs, CalculateBackoff(backoff_policy, attempt, u))
    /\ UNCHANGED <<backoff_policy, notBackoff>>

\* a RetryPolicy and no backoff calculated yet
StartBackoff(policy) ==
    /\ backoff_policy = policy
    /\ backoffs = <<>>

\* a call that has not entered intercept_unary_unary: attempt is the loop
\* variable, invocations and sleeps count the awaits of the continuation and
\* of asyncio.sleep, history lists what each attempt gave, on_retry the
\* attempt numbers passed to the on_retry hook
IdleRetryCall ==
    [pc |-> "idle", attempt |-> 0, invocations |-> 0, sleeps |-> 0,
     history |-> <<>>, on_retry |-> <<>>, result |-> "none"]

\* the loop body starts attempt rcalls[c].attempt: await continuation(...)
RetryInvoke(c) ==
    /\ rcalls[c].pc \in {"idle", "next"}
    /\ IF c = 1 THEN TRUE ELSE rcalls[c - 1].pc # "idle"
    /\ rcalls[c].attempt < retry_policy.max_attempts
    /\ rcalls' = [rcalls EXCEPT ![c] = [@ EXCEPT !.pc = "awaiting",
                                                  !.invocations = @ + 1]]
    /\ UNCHANGED <<retry_policy, retry_metrics, notRetry>>

\* mutant of SucceededByRetry: a success on the first attempt counts too
SucceededByRetry_FirstAttemptToo(attempt) == attempt >= 0

\* the test "attempt > 0" under which a success counts as a successful retry
SucceededByRetry(attempt) == attempt > 0

\* the continuation returns a response: it is returned, and a success on a
\* later attempt than the first counts as a successful retry
RetryReturns(c) ==
    /\ rcalls[c].pc = "awaiting"
    /\ retry_metrics' = IF SucceededByRetry(rcalls[c].attempt)
                        THEN [retry_metrics EXCEPT !.successful_retries = @ + 1]
                        ELSE retry_metrics
    /\ rcalls' = [rcalls EXCEPT ![c] = [@ EXCEPT !.pc = "done",
                        !.history = Append(@, "response"), !.result = "response"]]
    /\ UNCHANGED <<retry_policy, notRetry>>

\* the continuation raises AioRpcError(code): re-raise a non-retryable code;
\* with attempts remaining count the retry, call on_retry and sleep; after
\* the last attempt leave the loop and raise last_exception
RetryFails(c) ==
    /\ rcalls[c].pc = "awaiting"
    /\ \E code \in Codes :
        LET attempt == rcalls[c].attempt
            failed == [rcalls[c] EXCEPT !.history = Append(@, code)]
        IN  IF ~IsRetryable(code)
            THEN /\ rcalls' = [rcalls EXCEPT ![c] =
                                [failed EXCEPT !.pc = "done", !.result = code]]
                 /\ UNCHANGED retry_metrics
            ELSE IF AttemptsRemain(attempt)
            THEN /\ retry_metrics' = [retry_metrics EXCEPT !.total_retries = @ + 1]
                 /\ rcalls' = [rcalls EXCEPT ![c] =
                                [failed EXCEPT !.pc = "sleeping",
                                               !.sleeps = @ + 1,
                                               !.on_retry = Append(@, attempt + 1)]]
            ELSE /\ rcalls' = [rcalls EXCEPT ![c] =
                                [failed EXCEPT !.pc = "done", !.result = code]]
                 /\ UNCHANGED retry_metrics
    /\ UNCHANGED <<retry_policy, notRetry>>

\* asyncio.sleep(backoff) returns: the loop goes to the next attempt; when
\* range(max_attempts) is used up it raises last_exception instead
RetrySleepDone(c) ==
    /\ rcalls[c].pc = "sleeping"
    /\ LET r == rcalls[c] IN
       rcalls' = [rcalls EXCEPT ![c] =
            IF r.attempt + 1 < retry_policy.max_attempts
            THEN [r EXCEPT !.pc = "next", !.attempt = @ + 1]
            ELSE [r EXCEPT !.pc = "done", !.attempt = @ + 1,
                           !.result = r.history[Len(r.history)]]]
    /\ UNCHANGED <<retry_policy, retry_metrics, notRetry>>

\* the call is cancelled while it awaits the continuation or the sleep:
\* CancelledError is no AioRpcError and leaves the loop at once
RetryCancelled(c) ==
    /\ rcalls[c].pc \in {"awaiting", "sleeping"}
    /\ rcalls' = [rcalls EXCEPT ![c] = [@ EXCEPT !.pc = "done", !.result = "cancelled"]]
    /\ UNCHANGED <<retry_policy, retry_metrics, notRetry>>

\* RetryInterceptor.__init__ under a policy of max_attempts attempts
StartRetry(max_attempts) ==
    /\ retry_policy = [max_attempts |-> max_attempts]
    /\ retry_metrics = [total_retries |-> 0, successful_retries |-> 0]
    /\ rcalls = [c \in 1..NumRetryCalls |-> IdleRetryCall]
    /\ StartBackoff([initial_backoff |-> 1, max_backoff |-> 4,
                     backoff_multiplier |-> 2, jitter |-> 0])

RestRetry == StartRetry(1)


\* ================================================================== stream
StreamIds == {"s1", "s2"}
\* the ResumableStreamWrapper objects
Wrappers == {1}
\* sequence values checkpoint() is called with directly
SequenceNumbers == {0, 1}
\* progress_percent values the model draws
Progress == {50, 100}

\* Optional[StreamCheckpoint] = None
NoCheckpoint == [last_sequence |-> None, progress_percent |-> 0]

\* StreamState(stream_id, started_at)
NewStreamState(stream_id, started_at) ==
    [stream_id |-> stream_id, started_at |-> started_at, checkpoints |-> <<>>,
     completed |-> FALSE, error |-> "None", total_messages |-> 0]

\* StreamState.last_checkpoint
LastCheckpoint(state) ==
    IF Len(state.checkpoints) > 0 THEN state.checkpoints[Len(state.checkpoints)]
    ELSE NoCheckpoint

\* mutant of CanResume: completed is not looked at
CanResume_IgnoresCompleted(state) == LastCheckpoint(state) # NoCheckpoint

\* StreamState.can_resume
CanResume(state) == ~state.completed /\ LastCheckpoint(state) # NoCheckpoint

\* self._streams.get(stream_id): the position of stream_id in ss, 0 when absent
IndexOf(ss, stream_id) ==
    IF \E i \in 1..Len(ss) : ss[i].stream_id = stream_id
    THEN CHOOSE i \in 1..Len(ss) : ss[i].stream_id = stream_id
    ELSE 0

\* the sequence ss without the positions in drop
Without(ss, drop) ==
    LET keep == {i \in 1..Len(ss) : i \notin drop}
        F[k \in 0..Len(ss)] ==
            IF k = 0 THEN <<>>
            ELSE IF k \in keep THEN Append(F[k - 1], ss[k]) ELSE F[k - 1]
    IN  F[Len(ss)]

\* StreamCheckpointManager._cleanup_expired at time t
CleanupExpired(ss, t) ==
    Without(ss, {i \in 1..Len(ss) : t - ss[i].started_at > sc_config.ttl})

\* StreamCheckpointManager._evict_oldest: min() keeps the first key among
\* those with the least started_at
EvictOldest(ss) ==
    IF Len(ss) = 0 THEN ss
    ELSE LET oldest == CHOOSE i \in 1..Len(ss) :
                        /\ \A j \in 1..Len(ss) : ss[i].started_at <= ss[j].started_at
                        /\ \A j \in 1..(i - 1) : ss[j].started_at > ss[i].started_at
         IN  Without(ss, {oldest})

\* StreamCheckpointManager.start_stream at time t: the streams afterwards.
\* Assigning self._streams[stream_id] replaces a state already stored under
\* stream_id (keeping its place in the dict) by a fresh one.
StartStream(ss, stream_id, t) ==
    LET s1 == CleanupExpired(ss, t)
        s2 == IF Len(s1) >= sc_config.max_streams THEN EvictOldest(s1) ELSE s1
        i == IndexOf(s2, stream_id)
        state == NewStreamState(stream_id, t)
    IN  IF i = 0 THEN Append(s2, state) ELSE [s2 EXCEPT ![i] = state]

\* mutant of StoresCheckpoint: progress_percent is not looked at
StoresCheckpoint_IntervalOnly(sequence, progress_percent) ==
    sequence % sc_config.checkpoint_interval = 0

\* the test of StreamCheckpointManager.checkpoint that stores a checkpoint
StoresCheckpoint(sequence, progress_percent) ==
    sequence % sc_config.checkpoint_interval = 0 \/ progress_percent >= 100

\* StreamCheckpointManager.checkpoint: the streams afterwards
Checkpoint(ss, stream_id, sequence, progress_percent) ==
    LET i == IndexOf(ss, stream_id) IN
    IF i = 0 THEN ss
    ELSE [ss EXCEPT ![i] = [@ EXCEPT
            !.total_messages = sequence + 1,
            !.checkpoints = IF StoresCheckpoint(sequence, progress_percent)
                            THEN Append(@, [last_sequence |-> sequence,
                                            progress_percent |-> progress_percent])
                            ELSE @]]

\* what StreamCheckpointManager.checkpoint returns: the checkpoint it stored,
\* None for an unknown stream_id and when it stored nothing
CheckpointReturn(ss, stream_id, sequence, progress_percent) ==
    IF IndexOf(ss, stream_id) # 0 /\ StoresCheckpoint(sequence, progress_percent)
    THEN [last_sequence |-> sequence, progress_percent |-> progress_percent]
    ELSE NoCheckpoint

\* StreamCheckpointManager.get_resume_point
GetResumePoint(ss, stream_id) ==
    LET i == IndexOf(ss, stream_id) IN
    IF i # 0 /\ CanResume(ss[i]) THEN LastCheckpoint(ss[i]) ELSE NoCheckpoint

\* StreamCheckpointManager.complete_stream
CompleteStream(ss, stream_id) ==
    LET i == IndexOf(ss, stream_id) IN
    IF i = 0 THEN ss ELSE [ss EXCEPT ![i] = [@ EXCEPT !.completed = TRUE]]

\* StreamCheckpointManager.fail_stream
FailStream(ss, stream_id) ==
    LET i == IndexOf(ss, stream_id) IN
    IF i = 0 THEN ss ELSE [ss EXCEPT ![i] = [@ EXCEPT !.error = "error"]]

\* --- the manager called directly
\* start_stream is the only reader of the clock in this component: the time
\* that has passed since the last reading is drawn when it is called.  Once
\* more than ttl has passed every stored stream has expired, so longer
\* waits add nothing.
DoStartStream(stream_id) ==
    /\ api_calls < MaxApiCalls
    /\ api_calls' = api_calls + 1
    /\ \E t \in now..Min(now + sc_config.ttl + 1, MaxTime) :
        /\ now' = t
        /\ streams' = StartStream(streams, stream_id, t)
    /\ UNCHANGED <<sc_config, wrappers, notStream>>

\* one call checkpoint(stream_id, sequence, _, progress_percent)
CheckpointCall(stream_id, sequence, progress_percent) ==
    /\ api_calls < MaxApiCalls
    /\ api_calls' = api_calls + 1
    /\ streams' = Checkpoint(streams, stream_id, sequence, progress_percent)
    /\ UNCHANGED <<now, sc_config, wrappers, notStream>>

DoCheckpoint(stream_id) ==
    \E sequence \in SequenceNumbers, progress_percent \in Progress :
        CheckpointCall(stream_id, sequence, progress_percent)

DoCompleteStream(stream_id) ==
    /\ api_calls < MaxApiCalls
    /\ api_calls' = api_calls + 1
    /\ streams' = CompleteStream(streams, stream_id)
    /\ UNCHANGED <<now, sc_config, wrappers, notStream>>

DoFailStream(stream_id) ==
    /\ api_calls < MaxApiCalls
    /\ api_calls' = api_calls + 1
    /\ streams' = FailStream(streams, stream_id)
    /\ UNCHANGED <<now, sc_config, wrappers, notStream>>

\* --- ResumableStreamWrapper
\* ResumableStreamWrapper.__init__; resumable is history: the sequence of
\* the resume point the manager held for stream_id when the iteration began
NewWrapper ==
    [pc |-> "new", stream_id |-> "s1", has_resume_factory |-> FALSE,
     sequence |-> 0, source |-> "none", resume_from |-> None,
     resumable |-> None, received |-> 0]

\* mutant of WrapperSource: resume whenever a resume_factory was given
WrapperSource_AlwaysResumes(resume_point, has_resume_factory) ==
    IF has_resume_factory THEN "resume_factory" ELSE "stream_factory"

\* "if resume_point and self.resume_factory" of __aiter__
WrapperSource(resume_point, has_resume_factory) ==
    IF resume_point # NoCheckpoint /\ has_resume_factory
    THEN "resume_factory" ELSE "stream_factory"

\* __aiter__ up to the first message: start_stream, get_resume_point and
\* the choice of the factory; no other task runs in between
WrapperStart(w) ==
    /\ wrappers[w].pc = "new"
    /\ \E stream_id \in StreamIds, has_resume_factory \in BOOLEAN,
          t \in now..Min(now + sc_config.ttl + 1, MaxTime) :
        LET before == GetResumePoint(streams, stream_id)
            started == StartStream(streams, stream_id, t)
            resume_point == GetResumePoint(started, stream_id)
            source == WrapperSource(resume_point, has_resume_factory)
        IN  /\ streams' = started
            /\ now' = t
            /\ wrappers' = [wrappers EXCEPT ![w] = [@ EXCEPT
                    !.pc = "streaming",
                    !.stream_id = stream_id,
                    !.has_resume_factory = has_resume_factory,
                    !.resumable = before.last_sequence,
                    !.source = source,
                    !.resume_from = IF source = "resume_factory"
                                    THEN resume_point.last_sequence ELSE None,
                    !.sequence = IF source = "resume_factory"
                                 THEN resume_point.last_sequence ELSE @]]
    /\ UNCHANGED <<sc_config, api_calls, notStream>>

\* the stream gives a message: self._sequence += 1, checkpoint(...), yield
WrapperMessage(w) ==
    /\ wrappers[w].pc = "streaming"
    /\ wrappers[w].received < MaxMessages
    /\ \E progress_percent \in Progress :
        LET sequence == wrappers[w].sequence + 1 IN
        /\ streams' = Checkpoint(streams, wrappers[w].stream_id, sequence,
                                 progress_percent)
        /\ wrappers' = [wrappers EXCEPT ![w] = [@ EXCEPT !.sequence = sequence,
                                                          !.received = @ + 1]]
    /\ UNCHANGED <<now, sc_config, api_calls, notStream>>

\* the stream ends: complete_stream
WrapperComplete(w) ==
    /\ wrappers[w].pc = "streaming"
    /\ streams' = CompleteStream(streams, wrappers[w].stream_id)
    /\ wrappers' = [wrappers EXCEPT ![w] = [@ EXCEPT !.pc = "completed"]]
    /\ UNCHANGED <<now, sc_config, api_calls, notStream>>

\* the stream raises an Exception: fail_stream, re-raise
WrapperFails(w) ==
    /\ wrappers[w].pc = "streaming"
    /\ streams' = FailStream(streams, wrappers[w].stream_id)
    /\ wrappers' = [wrappers EXCEPT ![w] = [@ EXCEPT !.pc = "failed"]]
    /\ UNCHANGED <<now, sc_config, api_calls, notStream>>

\* the consumer stops iterating or is cancelled (GeneratorExit and
\* CancelledError are no Exception): neither complete_stream nor fail_stream
WrapperAbandoned(w) ==
    /\ wrappers[w].pc = "streaming"
    /\ wrappers' = [wrappers EXCEPT ![w] = [@ EXCEPT !.pc = "abandoned"]]
    /\ UNCHANGED <<now, sc_config, streams, api_calls, notStream>>

\* StreamCheckpointManager.__init__ under configuration cfg
StartStreams(cfg) ==
    /\ sc_config = cfg
    /\ streams = <<>>
    /\ wrappers = [w \in Wrappers |-> NewWrapper]
    /\ api_calls = 0

RestStream ==
    StartStreams([checkpoint_interval |-> 1, max_streams |-> 1, ttl |-> 1])

\* ========================================================== connection pool
\* the PoolConfig values tried
PoolConfigs ==
    {[min_size |-> 1, max_size |-> 1],
     [min_size |-> 1, max_size |-> 2],
     [min_size |-> 1, max_size |-> 3],
     [min_size |-> 2, max_size |-> 2]}

\* how the body of "async with pool.acquire()" can end
BodyExits == {"return", "error", "TimeoutError", "cancel"}

\* a caller that has not entered acquire(): pooled is the local variable of
\* acquire, created the connection _create_connection is putting, second
\* whether the except branch was entered from the body; handed, exit, seen
\* and puts record which connection the body was given, how the body ended,
\* what the async-with statement gave the caller, and how often the
\* connection handed out went back into the queue
NewCaller ==
    [pc |-> "idle", pooled |-> None, created |-> None, second |-> FALSE,
     handed |-> None, exit |-> "none", seen |-> "none", puts |-> 0]

\* acquire() is over for caller record r, which got result: its local
\* variables are gone; returned tells whether its finally clause put the
\* connection handed to the body into the queue
Over(r, result, returned) ==
    [NewCaller EXCEPT !.pc = "done", !.exit = r.exit, !.seen = result,
                      !.puts = IF returned /\ r.pooled = r.handed
                               THEN r.puts + 1 ELSE r.puts]

\* list.remove(x) on a list without duplicates
ListRemove(s, x) == SelectSeq(s, LAMBDA y : y # x)

\* the elements of a sequence
Range(s) == {s[i] : i \in 1..Len(s)}

\* PooledConnection.mark_used: last_used_at = time.time()
MarkUsed(p, k) == [p EXCEPT !.stale = @ \ {k}]

\* ConnectionPool._destroy_connection: the connection leaves
\* _all_connections if it is there; the idle queue is not touched
DestroyConnection(p, k) ==
    [p EXCEPT !.all_connections = ListRemove(@, k),
              !.stale = @ \ {k},
              !.total_destroyed = @ + 1]

\* asyncio.Queue(maxsize=max_size).full()
QueueFull(p) == Len(p.queue) >= pool_config.max_size

\* the finally clause of acquire, run by caller record r, which then gives
\* the caller result: the connection in the local variable pooled is put
\* into the queue when the pool is not closed; put waits while the queue
\* is full
Finally(p, r, result) ==
    IF r.pooled # None /\ ~p.closed
    THEN IF QueueFull(p)
         THEN [p |-> [p EXCEPT !.total_released = @ + 1],
               r |-> [r EXCEPT !.pc = "release_put", !.seen = result]]
         ELSE [p |-> [p EXCEPT !.total_released = @ + 1,
                               !.queue = Append(@, r.pooled)],
               r |-> Over(r, result, TRUE)]
    ELSE [p |-> p, r |-> Over(r, result, FALSE)]

\* the except TimeoutError branch once caller c holds the lock: start the
\* factory when len(_all_connections) < max_size, else raise "exhausted",
\* which leaves the lock and runs the finally clause
GrowthBranch(p, r, c) ==
    IF Len(p.all_connections) < pool_config.max_size
    THEN [p |-> [p EXCEPT !.lock = c], r |-> [r EXCEPT !.pc = "grow_factory"]]
    ELSE Finally([p EXCEPT !.lock = None], r, "PoolExhausted")

\* "async with self._lock" of the except branch: a free lock is taken
\* without suspending, a held one is waited for
EnterGrowth(p, r, c) ==
    IF p.lock = None THEN GrowthBranch(p, r, c)
    ELSE [p |-> p, r |-> [r EXCEPT !.pc = "grow_lock"]]

\* _create_connection after its put, then the rest of the branch that
\* called it: total_created, pooled = the new connection, "_pool.get()"
\* takes the HEAD of the queue and drops it, mark_used, total_acquired, yield.
\* The replacement branch has left the lock by then; the growth branch
\* yields inside it.  A generator that yields a second time makes the
\* context manager raise RuntimeError and stays suspended at that yield.
AfterPut(p, r) ==
    LET k == r.created
        put == [p EXCEPT !.queue = Tail(Append(@, k)),
                         !.total_created = @ + 1,
                         !.total_acquired = @ + 1]
        used == MarkUsed(put, k)
        got == [r EXCEPT !.pooled = k, !.created = None]
    IN  IF r.pc \in {"replace_factory", "replace_put"}
        THEN [p |-> [used EXCEPT !.lock = None],
              r |-> [got EXCEPT !.pc = "body", !.handed = k]]
        ELSE IF r.second
        THEN [p |-> used,
              r |-> [got EXCEPT !.pc = "zombie", !.seen = "GeneratorDidNotStop"]]
        ELSE [p |-> used, r |-> [got EXCEPT !.pc = "body", !.handed = k]]

\* _create_connection once the factory has returned: the new connection is
\* appended to _all_connections and put into the queue; put waits while
\* the queue is full.  made counts the PooledConnection objects built so
\* far: the new object is told apart from every earlier one
CreateConnection(p, r) ==
    LET k == p.made + 1
        made == [p EXCEPT !.made = k, !.all_connections = Append(@, k),
                          !.unhealthy = @ \ {k}, !.stale = @ \ {k}]
        mine == [r EXCEPT !.created = k]
    IN  IF QueueFull(made)
        THEN [p |-> made,
              r |-> [mine EXCEPT !.pc = IF r.pc = "replace_factory"
                                        THEN "replace_put" ELSE "grow_put"]]
        ELSE AfterPut(made, mine)

\* caller c's step of acquire() ends in res: the pool and the caller take
\* their new values; when the async-with statement is over for the caller,
\* pool_outcome keeps how its body ended, what it saw and how often its
\* connection went back into the queue, and the slot keeps only "done"
PoolStep(c, res) ==
    /\ pool' = res.p
    /\ pcallers' = [pcallers EXCEPT ![c] =
            IF res.r.pc = "done" THEN [NewCaller EXCEPT !.pc = "done"] ELSE res.r]
    /\ pool_outcome' = IF res.r.pc \in {"done", "zombie"}
                       THEN [exit |-> res.r.exit, seen |-> res.r.seen,
                             puts |-> res.r.puts]
                       ELSE pool_outcome
    /\ UNCHANGED <<pool_config, notPool>>

\* callers enter in slot order
MayAcquire(c) == IF c = 1 THEN TRUE ELSE pcallers[c - 1].pc # "idle"

\* acquire() is entered: a closed pool raises, else wait_for(_pool.get())
\* starts
PoolAcquire(c) ==
    /\ pcallers[c].pc = "idle"
    /\ MayAcquire(c)
    /\ PoolStep(c, [p |-> pool,
                     r |-> IF pool.closed
                           THEN Over(pcallers[c], "PoolClosed", FALSE)
                           ELSE [pcallers[c] EXCEPT !.pc = "getting"]])

\* _pool.get() returns the head of the queue.  A healthy connection is
\* marked used and yielded.  An unhealthy one is destroyed, and the
\* replacement is created under the lock: the factory starts at once when
\* the lock is free
PoolGet(c) ==
    /\ pcallers[c].pc = "getting"
    /\ pool.queue # <<>>
    /\ LET k == Head(pool.queue)
           p == [pool EXCEPT !.queue = Tail(@)]
           r == [pcallers[c] EXCEPT !.pooled = k]
           d == DestroyConnection(p, k)
       IN  PoolStep(c,
             IF k \notin pool.unhealthy
             THEN [p |-> [MarkUsed(p, k) EXCEPT !.total_acquired = @ + 1],
                   r |-> [r EXCEPT !.pc = "body", !.handed = k]]
             ELSE IF d.lock = None
             THEN [p |-> [d EXCEPT !.lock = c],
                   r |-> [r EXCEPT !.pc = "replace_factory"]]
             ELSE [p |-> d, r |-> [r EXCEPT !.pc = "replace_lock"]])

\* wait_for times out on an empty queue: the except TimeoutError branch
PoolGetTimeout(c) ==
    /\ pcallers[c].pc = "getting"
    /\ pool.queue = <<>>
    /\ LET res == EnterGrowth(pool, pcallers[c], c)
       IN  PoolStep(c, res)

\* a caller waiting for the lock gets it
LockAcquired(c) ==
    /\ pcallers[c].pc \in {"replace_lock", "grow_lock"}
    /\ pool.lock = None
    /\ LET res == IF pcallers[c].pc = "replace_lock"
                  THEN [p |-> [pool EXCEPT !.lock = c],
                        r |-> [pcallers[c] EXCEPT !.pc = "replace_factory"]]
                  ELSE GrowthBranch(pool, pcallers[c], c)
       IN  PoolStep(c, res)

\* the factory returns a connection, or raises an error that is no
\* TimeoutError: the error leaves the lock and runs the finally clause
\* with whatever pooled still refers to
FactoryReturns(c) ==
    /\ pcallers[c].pc \in {"replace_factory", "grow_factory"}
    /\ \E ok \in BOOLEAN :
        /\ ok => pool.made < MaxConnections
        /\ LET res == IF ok THEN CreateConnection(pool, pcallers[c])
                      ELSE Finally([pool EXCEPT !.lock = None], pcallers[c],
                                   "FactoryError")
           IN  PoolStep(c, res)

\* a put that waited on a full queue goes through
PutProceeds(c) ==
    /\ pcallers[c].pc \in {"replace_put", "grow_put", "release_put"}
    /\ ~QueueFull(pool)
    /\ LET r == pcallers[c]
           res == IF r.pc = "release_put"
                  THEN [p |-> [pool EXCEPT !.queue = Append(@, r.pooled)],
                        r |-> Over(r, r.seen, TRUE)]
                  ELSE AfterPut(pool, r)
       IN  PoolStep(c, res)

\* the body of the async-with ends.  Under the yield of the growth branch
\* (the caller holds the lock) every exit leaves the lock and runs the
\* finally clause.  Under the first yield a TimeoutError of the body is
\* caught by "except TimeoutError"; every other exit runs the finally clause
BodyExit(c) ==
    /\ pcallers[c].pc = "body"
    /\ \E how \in BodyExits :
        LET r == [pcallers[c] EXCEPT !.exit = how]
            res == IF pool.lock = c
                   THEN Finally([pool EXCEPT !.lock = None], r, how)
                   ELSE IF how = "TimeoutError"
                   THEN EnterGrowth(pool, [r EXCEPT !.second = TRUE], c)
                   ELSE Finally(pool, r, how)
        IN  PoolStep(c, res)

\* the caller's task is cancelled while acquire() waits for the queue, the
\* lock, the factory or a put of _create_connection: CancelledError leaves
\* the lock if held and runs the finally clause
AcquireCancelled(c) ==
    /\ pcallers[c].pc \in {"getting", "replace_lock", "replace_factory",
                           "grow_lock", "grow_factory", "replace_put", "grow_put"}
    /\ LET p == IF pool.lock = c THEN [pool EXCEPT !.lock = None] ELSE pool
           res == Finally(p, pcallers[c], "cancel")
       IN  PoolStep(c, res)

\* the generator left suspended at its second yield is finalized
\* (aclose): GeneratorExit leaves the lock and runs the finally clause;
\* the caller has its RuntimeError already
GeneratorFinalized(c) ==
    /\ pcallers[c].pc = "zombie"
    /\ LET res == Finally([pool EXCEPT !.lock = None], pcallers[c], pcallers[c].seen)
       IN  PoolStep(c, res)

\* _health_check_loop, first half: the health checker gives a verdict for
\* a connection of _all_connections
HealthCheck(k) ==
    /\ ~pool.closed
    /\ k \in Range(pool.all_connections)
    /\ pool' = [pool EXCEPT !.unhealthy =
                    IF k \in @ THEN @ \ {k} ELSE @ \cup {k}]
    /\ UNCHANGED <<pool_config, pcallers, pool_outcome, notPool>>

\* more than max_idle_time passes: idle_time > max_idle_time for every
\* connection made so far, until it is marked used again
IdlePeriodElapses ==
    /\ ~pool.closed
    /\ pool.stale # 1..pool.made
    /\ pool' = [pool EXCEPT !.stale = 1..pool.made]
    /\ UNCHANGED <<pool_config, pcallers, pool_outcome, notPool>>

\* the eviction loop over the snapshot s of _all_connections
RECURSIVE EvictFrom(_, _)
EvictFrom(p, s) ==
    IF s = <<>> THEN p
    ELSE LET k == Head(s)
             q == IF k \in p.stale /\ Len(p.all_connections) > pool_config.min_size
                  THEN DestroyConnection(p, k) ELSE p
         IN  EvictFrom(q, Tail(s))

\* _health_check_loop, second half, under the lock: destroy the connections
\* of _all_connections idle for too long while more than min_size remain
EvictIdle ==
    /\ ~pool.closed
    /\ pool.lock = None
    /\ pool' = EvictFrom(pool, pool.all_connections)
    /\ pool' # pool
    /\ UNCHANGED <<pool_config, pcallers, pool_outcome, notPool>>

\* the destruction loop of close() over the snapshot s
RECURSIVE DestroyAll(_, _)
DestroyAll(p, s) ==
    IF s = <<>> THEN p ELSE DestroyAll(DestroyConnection(p, Head(s)), Tail(s))

\* close(): mark closed, stop the maintenance task, destroy every
\* connection of _all_connections; the queue and the waiters are left alone
PoolClose ==
    /\ ~pool.closed
    /\ pool' = DestroyAll([pool EXCEPT !.closed = TRUE], pool.all_connections)
    /\ UNCHANGED <<pool_config, pcallers, pool_outcome, notPool>>

\* ConnectionPool.__init__ and initialize() under cfg: min_size healthy
\* connections, all of them in the queue
StartPool(cfg) ==
    /\ pool_config = cfg
    /\ pool = [queue |-> [i \in 1..cfg.min_size |-> i],
               all_connections |-> [i \in 1..cfg.min_size |-> i],
               lock |-> None, closed |-> FALSE,
               unhealthy |-> {}, stale |-> {},
               total_acquired |-> 0, total_released |-> 0,
               total_created |-> cfg.min_size, total_destroyed |-> 0,
               made |-> cfg.min_size]
    /\ pcallers = [c \in 1..NumCallers |-> NewCaller]
    /\ pool_outcome = [exit |-> "none", seen |-> "none", puts |-> 0]

RestPool == StartPool([min_size |-> 1, max_size |-> 1])

\* ========================================================= adaptive timeout
\* all times of this component are in tenths of a second, and
\* adjustment_factor is in tenths; the durations recorded are whole seconds,
\* so that p95_time * adjustment_factor is exact

\* a method string is the list of its parts between the "/" characters:
\* <<"Analyze">> is "Analyze", <<"", "synapse.Analyst", "Analyze">> is
\* "/synapse.Analyst/Analyze"
MethodPaths == {<<"Analyze">>, <<"", "synapse.Analyst", "Analyze">>}

\* the method strings record_response_time is called with directly
RecordedMethods == {<<"Analyze">>}

\* the durations handed to record_response_time
Durations == {10, 80}

\* the method_timeouts dictionaries tried
MethodTimeouts ==
    {[m \in {} |-> 0], [m \in {"Analyze"} |-> 10], [m \in {"Analyze"} |-> 60]}

\* the TimeoutConfig values tried
TimeoutConfigs ==
    {cfg \in [default_timeout : {50}, min_timeout : {10, 50},
              max_timeout : {100}, method_timeouts : MethodTimeouts,
              adaptive_enabled : BOOLEAN, percentile : {50, 95},
              adjustment_factor : {15}, history_size : {10}] :
        /\ ~cfg.adaptive_enabled
              => (cfg.min_timeout = 10 /\ cfg.percentile = 95
                    /\ cfg.method_timeouts = [m \in {} |-> 0])
        /\ cfg.percentile = 50 => cfg.min_timeout = 10}

\* TimeoutManager._extract_method_name: the part after the last "/", or
\* the whole string when it has no "/"
ExtractMethodName(full_method) ==
    IF Len(full_method) > 1 THEN <<full_method[Len(full_method)]>> ELSE full_method

\* the key of method_timeouts a one-part method name is
NameOf(method_name) == method_name[1]

\* config.method_timeouts.get(method_name, config.default_timeout)
BaseTimeout(cfg, method_name) ==
    IF NameOf(method_name) \in DOMAIN cfg.method_timeouts
    THEN cfg.method_timeouts[NameOf(method_name)]
    ELSE cfg.default_timeout

\* sorted(data)
Sorted(data) == SortSeq(data, LAMBDA a, b : a < b)

\* TimeoutManager._get_percentile
GetPercentile(cfg, data, percentile) ==
    IF data = <<>> THEN cfg.default_timeout
    ELSE LET sorted_data == Sorted(data)
             index == Min((Len(sorted_data) * percentile) \div 100,
                          Len(sorted_data) - 1)
         IN  sorted_data[index + 1]

\* mutant of FinalTimeout: the cap at twice the base is left out
FinalTimeout_NoBaseCap(cfg, adaptive_timeout, base_timeout) ==
    Max(cfg.min_timeout, Min(adaptive_timeout, cfg.max_timeout))

\* the clamp of get_timeout:
\* max(min_timeout, min(adaptive_timeout, max_timeout, base_timeout * 2))
FinalTimeout(cfg, adaptive_timeout, base_timeout) ==
    Max(cfg.min_timeout,
        Min(adaptive_timeout, Min(cfg.max_timeout, base_timeout * 2)))

\* _response_times.get(method_name, [])
Window(times, key) == IF key \in DOMAIN times THEN times[key] ELSE <<>>

\* TimeoutManager.get_timeout(method) over the windows times
GetTimeout(cfg, times, method) ==
    LET method_name == ExtractMethodName(method)
        base_timeout == BaseTimeout(cfg, method_name)
        history == Window(times, method_name)
    IN  IF ~cfg.adaptive_enabled THEN base_timeout
        ELSE IF Len(history) < 10 THEN base_timeout
        ELSE LET p95_time == GetPercentile(cfg, history, cfg.percentile)
                 adaptive_timeout == (p95_time * cfg.adjustment_factor) \div 10
             IN  FinalTimeout(cfg, adaptive_timeout, base_timeout)

\* TimeoutManager.record_response_time(method, duration): append to the
\* window kept under the string passed, drop the oldest sample beyond
\* history_size
RecordResponseTime(cfg, times, method, duration) ==
    LET history == Append(Window(times, method), duration)
        kept == IF Len(history) > cfg.history_size THEN Tail(history) ELSE history
    IN  [k \in DOMAIN times \cup {method} |-> IF k = method THEN kept ELSE times[k]]

\* samples recorded so far
SamplesRecorded == tm_op.recorded

DoRecordResponseTime(method, duration) ==
    /\ SamplesRecorded < MaxSamples
    /\ response_times' = RecordResponseTime(tm_config, response_times, method, duration)
    /\ tm_op' = [op |-> "record", method |-> method, result |-> None,
                 recorded |-> SamplesRecorded + 1]
    /\ UNCHANGED <<tm_config, notTimeout>>

DoGetTimeout(method) ==
    /\ tm_op' = [op |-> "get_timeout", method |-> method,
                 result |-> GetTimeout(tm_config, response_times, method),
                 recorded |-> SamplesRecorded]
    /\ UNCHANGED <<tm_config, response_times, notTimeout>>

\* --- AdaptiveTimeoutInterceptor, one call at a time
\* how the continuation of an intercepted call ends
Endings == {"response", "AioRpcError", "other"}

\* intercept_unary_unary up to the await of the continuation: get_timeout
\* of the method of the call details; the call goes on under that timeout
TimeoutIntercept(method) ==
    /\ tm_op.op # "intercept"
    /\ tm_op' = [op |-> "intercept", method |-> method,
                 result |-> GetTimeout(tm_config, response_times, method),
                 recorded |-> SamplesRecorded]
    /\ UNCHANGED <<tm_config, response_times, notTimeout>>

\* the continuation ends after duration: a response and an AioRpcError are
\* followed by record_response_time(method, duration) with the method of
\* the call details; any other exception leaves the method at once
TimeoutCompletes(ending, duration) ==
    /\ tm_op.op = "intercept"
    /\ ending # "other" => SamplesRecorded < MaxSamples
    /\ response_times' =
            IF ending = "other" THEN response_times
            ELSE RecordResponseTime(tm_config, response_times, tm_op.method, duration)
    /\ tm_op' = [op |-> ending, method |-> tm_op.method, result |-> tm_op.result,
                 recorded |-> IF ending = "other" THEN SamplesRecorded
                              ELSE SamplesRecorded + 1]
    /\ UNCHANGED <<tm_config, notTimeout>>

\* TimeoutManager.__init__ under config cfg
StartTimeout(cfg) ==
    /\ tm_config = cfg
    /\ response_times = [k \in {} |-> <<>>]
    /\ tm_op = [op |-> "none", method |-> <<>>, result |-> None, recorded |-> 0]

RestTimeout ==
    StartTimeout([default_timeout |-> 50, min_timeout |-> 10, max_timeout |-> 100,
                  method_timeouts |-> [m \in {} |-> 0], adaptive_enabled |-> TRUE,
                  percentile |-> 95, adjustment_factor |-> 15,
                  history_size |-> 10])

\* ================================================================ fallback
\* a response that is None
NoResponse == "None"

\* a method string is the list of its parts between the "/" characters and
\* a part is the list of its words: <<<<"Health", "Check">>>> is
\* "HealthCheck", <<<<>>, <<"synapse.Planner">>, <<"Health", "Check">>>> is
\* "/synapse.Planner/HealthCheck"
HealthCheckPath == <<<<>>, <<"synapse.Planner">>, <<"Health", "Check">>>>

\* requests: None, the empty string and a non-empty string
NoRequest == "None"

\* "str(request) if request else ''": None and the empty string are falsy
RequestStr(request) == IF request \in {NoRequest, ""} THEN "" ELSE request

\* FallbackCache._make_key: f"{method}:{hash(request_str)}"; the hashes of
\* two different strings are taken to differ
MakeKey(method, request) == <<method, RequestStr(request)>>

\* mutant of IsExpired: an entry expires as soon as its ttl is reached
IsExpired_AtTtl(entry, t) == t - entry.timestamp >= entry.ttl

\* CacheEntry.is_expired at time t
IsExpired(entry, t) == t - entry.timestamp > entry.ttl

\* the position of key in the cache dictionary, 0 when it is not a key
RECURSIVE KeyIndex(_, _)
KeyIndex(cache, key) ==
    IF cache = <<>> THEN 0
    ELSE IF cache[Len(cache)].key = key THEN Len(cache)
    ELSE KeyIndex(SubSeq(cache, 1, Len(cache) - 1), key)

\* del self._cache[key]
DictDelete(cache, key) == SelectSeq(cache, LAMBDA e : e.key # key)

\* self._cache[key] = entry: a key already there keeps its place
DictStore(cache, entry) ==
    IF KeyIndex(cache, entry.key) = 0 THEN Append(cache, entry)
    ELSE [cache EXCEPT ![KeyIndex(cache, entry.key)] = entry]

\* min(self._cache.keys(), key=timestamp): the first key, in dictionary
\* order, of the smallest timestamp
OldestKey(cache) ==
    LET i == CHOOSE i \in 1..Len(cache) :
                \A j \in 1..Len(cache) :
                    \/ cache[i].timestamp < cache[j].timestamp
                    \/ cache[i].timestamp = cache[j].timestamp /\ i <= j
    IN  cache[i].key

\* FallbackCache._evict_oldest
CacheEvictOldest(cache) ==
    IF cache = <<>> THEN cache ELSE DictDelete(cache, OldestKey(cache))

\* FallbackCache.get at time t: [cache, value], the cache left and the value
\* returned
CacheGet(cfg, cache, method, request, t) ==
    LET key == MakeKey(method, request)
        i == KeyIndex(cache, key)
    IN  IF ~cfg.cache_enabled THEN [cache |-> cache, value |-> NoResponse]
        ELSE IF i = 0 THEN [cache |-> cache, value |-> NoResponse]
        ELSE IF IsExpired(cache[i], t)
        THEN [cache |-> DictDelete(cache, key), value |-> NoResponse]
        ELSE [cache |-> cache, value |-> cache[i].value]

\* "ttl or self.config.cache_ttl": None and 0 are falsy
EntryTtl(cfg, ttl) == IF ttl \in {None, 0} THEN cfg.cache_ttl ELSE ttl

\* FallbackCache.set at time t: the cache left
CacheSet(cfg, cache, method, request, response, ttl, t) ==
    IF ~cfg.cache_enabled THEN cache
    ELSE LET room == IF Len(cache) >= cfg.max_cache_size
                     THEN CacheEvictOldest(cache) ELSE cache
         IN  DictStore(room, [key |-> MakeKey(method, request),
                              value |-> response, timestamp |-> t,
                              ttl |-> EntryTtl(cfg, ttl)])

\* "method.split('/')[-1] if '/' in method else method"
LastPart(method) == method[Len(method)]

\* "pattern in method_name" on word lists
PatternIn(pattern, method_name) ==
    \E i \in 0..(Len(method_name) - Len(pattern)) :
        SubSeq(method_name, i + 1, i + Len(pattern)) = pattern

\* what a rule handler or a service handler does when called: it returns a
\* response, returns None, or raises
HandlerYields == {"handler", NoResponse, "raises"}
\* the response of the rule registered for a pattern is written as the
\* first word of the pattern
RuleYields == {"answers", NoResponse, "raises"}

\* RuleBasedFallback.handle over the rules from position i on: the first
\* rule whose pattern is in the method name and whose handler does not
\* raise gives the result, None included
RECURSIVE RuleHandle(_, _, _)
RuleHandle(rules, i, method) ==
    IF i > Len(rules) THEN NoResponse
    ELSE IF PatternIn(rules[i].pattern, LastPart(method))
            /\ rules[i].yields # "raises"
    THEN IF rules[i].yields = "answers" THEN rules[i].pattern[1] ELSE NoResponse
    ELSE RuleHandle(rules, i + 1, method)

\* RuleBasedFallback.register_rule: self._rules[method_pattern] = handler
RegisterRule(rules, pattern, yields) ==
    LET at == {i \in 1..Len(rules) : rules[i].pattern = pattern}
        rule == [pattern |-> pattern, yields |-> yields]
    IN  IF at = {} THEN Append(rules, rule)
        ELSE [i \in 1..Len(rules) |-> IF i \in at THEN rule ELSE rules[i]]

\* mutant of GetFallback: the service handler is asked before the cache
GetFallback_HandlerFirst(cfg, cache, handlers, rules, service_name, method, request, t) ==
    LET cached == CacheGet(cfg, cache, method, request, t)
        handled == IF service_name \in DOMAIN handlers
                   THEN handlers[service_name] ELSE NoResponse
        ruled == IF cfg.rule_based_enabled
                 THEN RuleHandle(rules, 1, method) ELSE NoResponse
    IN  [cache |-> cached.cache,
         result |-> IF handled # NoResponse THEN handled
                    ELSE IF cached.value # NoResponse THEN cached.value
                    ELSE ruled]

\* FallbackManager.get_fallback at time t: [cache, result], the cache left
\* and what the caller gets; "raises" when the service handler raised
GetFallback(cfg, cache, handlers, rules, service_name, method, request, t) ==
    LET cached == CacheGet(cfg, cache, method, request, t)
        handled == IF service_name \in DOMAIN handlers
                   THEN handlers[service_name] ELSE NoResponse
        ruled == IF cfg.rule_based_enabled
                 THEN RuleHandle(rules, 1, method) ELSE NoResponse
    IN  [cache |-> cached.cache,
         result |-> IF cached.value # NoResponse THEN cached.value
                    ELSE IF handled # NoResponse THEN handled
                    ELSE ruled]

\* the keys of a cache dictionary
Keys(cache) == {cache[i].key : i \in 1..Len(cache)}

\* history of the sets: the entries of the keys that left the cache
\* otherwise than by expiring are marked removed
MarkRemoved(sets, cache, left) ==
    [k \in DOMAIN sets |->
        IF k \in Keys(cache) \ Keys(left) THEN [sets[k] EXCEPT !.removed = TRUE]
        ELSE sets[k]]

\* FallbackCache.set / FallbackManager.cache_response
DoCacheSet(method, request, response, ttl) ==
    LET left == CacheSet(fb_config, fb_cache, method, request, response, ttl, now)
        key == MakeKey(method, request)
        marked == MarkRemoved(fb_sets, fb_cache, left)
    IN  /\ fb_cache' = left
        /\ fb_sets' = IF fb_config.cache_enabled
                      THEN [k \in DOMAIN marked \cup {key} |->
                              IF k = key
                              THEN [value |-> response, timestamp |-> now,
                                    ttl |-> EntryTtl(fb_config, ttl), removed |-> FALSE]
                              ELSE marked[k]]
                      ELSE fb_sets
        /\ fb_op' = [op |-> "set", service |-> "", result |-> NoResponse]
        /\ UNCHANGED <<now, fb_config, fb_handlers, fb_rules, notFallback>>

\* FallbackCache.get
DoCacheGet(method, request) ==
    LET got == CacheGet(fb_config, fb_cache, method, request, now)
    IN  /\ fb_cache' = got.cache
        /\ fb_op' = [op |-> "get", service |-> "", result |-> got.value]
        /\ UNCHANGED <<now, fb_config, fb_handlers, fb_rules, fb_sets, notFallback>>

\* FallbackCache.clear
DoCacheClear ==
    /\ fb_cache # <<>>
    /\ fb_cache' = <<>>
    /\ fb_sets' = MarkRemoved(fb_sets, fb_cache, <<>>)
    /\ fb_op' = [op |-> "clear", service |-> "", result |-> NoResponse]
    /\ UNCHANGED <<now, fb_config, fb_handlers, fb_rules, notFallback>>

\* FallbackManager.register_handler
DoRegisterHandler(service_name, yields) ==
    /\ fb_handlers' = [s \in DOMAIN fb_handlers \cup {service_name} |->
                          IF s = service_name THEN yields ELSE fb_handlers[s]]
    /\ fb_handlers' # fb_handlers
    /\ fb_op' = [op |-> "register", service |-> "", result |-> NoResponse]
    /\ UNCHANGED <<now, fb_config, fb_cache, fb_rules, fb_sets, notFallback>>

\* FallbackManager.register_rule
DoRegisterRule(pattern, yields) ==
    /\ fb_rules' = RegisterRule(fb_rules, pattern, yields)
    /\ fb_rules' # fb_rules
    /\ fb_op' = [op |-> "register", service |-> "", result |-> NoResponse]
    /\ UNCHANGED <<now, fb_config, fb_cache, fb_handlers, fb_sets, notFallback>>

\* FallbackManager.get_fallback
DoGetFallback(service_name, method, request) ==
    LET got == GetFallback(fb_config, fb_cache, fb_handlers, fb_rules,
                           service_name, method, request, now)
    IN  /\ fb_cache' = got.cache
        /\ fb_op' = [op |-> "get_fallback", service |-> service_name,
                     result |-> got.result]
        /\ UNCHANGED <<now, fb_config, fb_handlers, fb_rules, fb_sets, notFallback>>

\* time.time() advances
FallbackTick ==
    /\ now < MaxTime
    /\ now' = now + 1
    /\ UNCHANGED <<fbVars, notFallback>>

\* FallbackManager.__init__ under config cfg
StartFallback(cfg) ==
    /\ fb_config = cfg
    /\ fb_cache = <<>>
    /\ fb_handlers = [s \in {} |-> NoResponse]
    /\ fb_rules = <<>>
    /\ fb_sets = [k \in {} |-> NoResponse]
    /\ fb_op = [op |-> "none", service |-> "", result |-> NoResponse]

RestFallback ==
    StartFallback([cache_enabled |-> TRUE, cache_ttl |-> 1, max_cache_size |-> 2,
                   rule_based_enabled |-> TRUE])

\* ============================================================ load balancer
\* the strategies a LoadBalancer is built with
Strategies == {"round_robin", "weighted", "least_connections", "least_response_time"}

\* the addresses of the endpoints added, in the order of add_endpoint
Addresses == {1, 2, 3}

\* the response times reported
ResponseTimes == {1, 3}

\* what the health checker of the balancer does for one endpoint
Verdicts == {"healthy", "unhealthy", "raises"}

\* the weight lists tried
WeightLists == {[a \in Addresses |-> 1], [a \in Addresses |-> IF a = 1 THEN 0 ELSE a]}

\* ServiceEndpoint(host, port, weight)
NewEndpoint(address, weight) ==
    [address |-> address, weight |-> weight, healthy |-> TRUE,
     failure_count |-> 0, success_count |-> 0, response_times |-> <<>>]

\* sum(self._response_times)
RECURSIVE SumSeq(_)
SumSeq(s) == IF s = <<>> THEN 0 ELSE Head(s) + SumSeq(Tail(s))

\* ServiceEndpoint.record_success; avg_response_time is
\* SumSeq(response_times) / Len(response_times)
EndpointRecordSuccess(e, response_time) ==
    LET times == Append(e.response_times, response_time)
    IN  [e EXCEPT !.success_count = @ + 1,
                  !.failure_count = 0,
                  !.response_times = IF Len(times) > 100 THEN Tail(times) ELSE times]

\* ServiceEndpoint.record_failure
EndpointRecordFailure(e) ==
    [e EXCEPT !.failure_count = @ + 1,
              !.healthy = IF e.failure_count + 1 >= 3 THEN FALSE ELSE @]

\* mutant of EndpointChecked: a healthy verdict leaves failure_count alone
EndpointChecked_KeepsFailureCount(e, verdict) ==
    IF verdict = "raises"
    THEN [e EXCEPT !.healthy = FALSE, !.failure_count = @ + 1]
    ELSE [e EXCEPT !.healthy = (verdict = "healthy")]

\* the body of the loop of LoadBalancer._health_check_loop for one
\* endpoint, from the return of the health checker on
EndpointChecked(e, verdict) ==
    IF verdict = "raises"
    THEN [e EXCEPT !.healthy = FALSE, !.failure_count = @ + 1]
    ELSE [e EXCEPT !.healthy = (verdict = "healthy"),
                   !.failure_count = IF verdict = "healthy" THEN 0 ELSE @]

\* mutant of HealthyOf: the health flag is not looked at
HealthyOf_All(endpoints) == endpoints

\* "[e for e in endpoints if e.healthy]"
HealthyOf(endpoints) == SelectSeq(endpoints, LAMBDA e : e.healthy)

\* no endpoint: Optional[ServiceEndpoint] = None
NoEndpoint == 0

\* mutant of NextIndex: the index runs over all endpoints
NextIndex_OverAll(index, endpoints) == (index + 1) % Len(endpoints)

\* "self._index = (self._index + 1) % len(healthy)"
NextIndex(index, endpoints) == (index + 1) % Len(HealthyOf(endpoints))

\* RoundRobinStrategy.select: [selected, index]
RoundRobinSelect(index, endpoints) ==
    LET healthy == HealthyOf(endpoints)
    IN  IF healthy = <<>> THEN [selected |-> NoEndpoint, index |-> index]
        ELSE [selected |-> healthy[(index % Len(healthy)) + 1].address,
              index |-> NextIndex(index, endpoints)]

\* "cumulative" of WeightedStrategy.select after the first i healthy endpoints
RECURSIVE Cumulative(_, _)
Cumulative(healthy, i) ==
    IF i = 0 THEN 0 ELSE Cumulative(healthy, i - 1) + healthy[i].weight

\* WeightedStrategy.select when random.uniform(0, total_weight) gives r:
\* the first endpoint with r <= cumulative, healthy[-1] when there is none
WeightedSelect(endpoints, r) ==
    LET healthy == HealthyOf(endpoints)
        hit == {i \in 1..Len(healthy) : r <= Cumulative(healthy, i)}
    IN  IF healthy = <<>> THEN NoEndpoint
        ELSE IF hit = {} THEN healthy[Len(healthy)].address
        ELSE healthy[CHOOSE i \in hit : \A j \in hit : i <= j].address

\* the values random.uniform(0, total_weight) is drawn from: both ends and
\* every whole number between
UniformDraws(endpoints) ==
    0..Cumulative(HealthyOf(endpoints), Len(HealthyOf(endpoints)))

\* self._connections.get(address, 0)
ConnectionsOf(connections, address) ==
    IF address \in DOMAIN connections THEN connections[address] ELSE 0

\* LeastConnectionsStrategy.select: the first healthy endpoint of the
\* smallest count
LeastConnectionsSelect(connections, endpoints) ==
    LET healthy == HealthyOf(endpoints)
        least == {i \in 1..Len(healthy) :
                    \A j \in 1..Len(healthy) :
                        \/ ConnectionsOf(connections, healthy[i].address)
                              < ConnectionsOf(connections, healthy[j].address)
                        \/ /\ ConnectionsOf(connections, healthy[i].address)
                                = ConnectionsOf(connections, healthy[j].address)
                           /\ i <= j}
    IN  IF healthy = <<>> THEN NoEndpoint
        ELSE healthy[CHOOSE i \in least : TRUE].address

\* LeastConnectionsStrategy.increment
Increment(connections, address) ==
    [a \in DOMAIN connections \cup {address} |->
        IF a = address THEN ConnectionsOf(connections, address) + 1
        ELSE connections[a]]

\* LeastConnectionsStrategy.decrement
Decrement(connections, address) ==
    IF address \in DOMAIN connections
    THEN [connections EXCEPT ![address] = Max(0, @ - 1)]
    ELSE connections

\* "e.avg_response_time > 0"
HasAverage(e) == e.response_times # <<>> /\ SumSeq(e.response_times) > 0

\* the key of LeastResponseTimeStrategy.select of e1 is less than that of
\* e2: avg_response_time, or infinity when it is not above 0; the averages
\* are compared without dividing
KeyLess(e1, e2) ==
    IF ~HasAverage(e1) THEN FALSE
    ELSE IF ~HasAverage(e2) THEN TRUE
    ELSE SumSeq(e1.response_times) * Len(e2.response_times)
            < SumSeq(e2.response_times) * Len(e1.response_times)

\* LeastResponseTimeStrategy.select: min() gives the first healthy endpoint
\* no other has a smaller key than
LeastResponseTimeSelect(endpoints) ==
    LET healthy == HealthyOf(endpoints)
        least == {i \in 1..Len(healthy) :
                    /\ \A j \in 1..Len(healthy) : ~KeyLess(healthy[j], healthy[i])
                    /\ \A j \in 1..(i - 1) : KeyLess(healthy[j], healthy[i])
                                              \/ KeyLess(healthy[i], healthy[j])}
    IN  IF healthy = <<>> THEN NoEndpoint
        ELSE healthy[CHOOSE i \in least : TRUE].address

\* LoadBalancer.get_endpoint when the strategy is strategy and
\* random.uniform gives r: [selected, index]
Select(strategy, index, connections, endpoints, r) ==
    IF strategy = "round_robin" THEN RoundRobinSelect(index, endpoints)
    ELSE [selected |-> IF strategy = "weighted" THEN WeightedSelect(endpoints, r)
                       ELSE IF strategy = "least_connections"
                       THEN LeastConnectionsSelect(connections, endpoints)
                       ELSE LeastResponseTimeSelect(endpoints),
          index |-> index]

\* the addresses of the healthy endpoints
HealthySet(endpoints) ==
    {endpoints[i].address : i \in {j \in 1..Len(endpoints) : endpoints[j].healthy}}

\* history of the round-robin selections: the last selections, at most as
\* many as there are endpoints, made since the healthy set last changed
PicksAfter(picks, before, after, selected) ==
    IF HealthySet(before) # HealthySet(after) THEN <<>>
    ELSE IF selected = NoEndpoint THEN picks
    ELSE LET all == Append(picks, selected)
         IN  IF Len(all) > Cardinality(Addresses) THEN Tail(all) ELSE all

\* LoadBalancer.get_endpoint
DoGetEndpoint ==
    /\ \E r \in IF lb_config.strategy = "weighted"
                THEN UniformDraws(lb_endpoints) ELSE {0} :
        LET got == Select(lb_config.strategy, lb_index, lb_connections,
                          lb_endpoints, r)
        IN  /\ lb_index' = got.index
            /\ lb_op' = [op |-> "get_endpoint", selected |-> got.selected]
            /\ lb_picks' = IF lb_config.strategy = "round_robin"
                           THEN PicksAfter(lb_picks, lb_endpoints, lb_endpoints,
                                           got.selected)
                           ELSE lb_picks
    /\ UNCHANGED <<lb_config, lb_endpoints, lb_connections, lb_reports, notLb>>

\* the outcomes one balancer is reported: a round-robin balancer without a
\* health checker, where only the third record_failure makes an endpoint
\* unhealthy, is reported one more
ReportLimit ==
    IF ~lb_config.health_checker /\ lb_config.strategy = "round_robin"
    THEN MaxReports + 1 ELSE MaxReports

\* LoadBalancer.record_success(endpoint, response_time)
DoLbRecordSuccess(address, response_time) ==
    /\ lb_reports < ReportLimit
    /\ lb_reports' = lb_reports + 1
    /\ lb_endpoints' = [lb_endpoints EXCEPT ![address] =
                            EndpointRecordSuccess(@, response_time)]
    /\ lb_op' = [op |-> "other", selected |-> NoEndpoint]
    /\ lb_picks' = PicksAfter(lb_picks, lb_endpoints, lb_endpoints', NoEndpoint)
    /\ UNCHANGED <<lb_config, lb_index, lb_connections, notLb>>

\* LoadBalancer.record_failure(endpoint)
DoLbRecordFailure(address) ==
    /\ lb_reports < ReportLimit
    /\ lb_reports' = lb_reports + 1
    /\ lb_endpoints' = [lb_endpoints EXCEPT ![address] = EndpointRecordFailure(@)]
    /\ lb_op' = [op |-> "other", selected |-> NoEndpoint]
    /\ lb_picks' = PicksAfter(lb_picks, lb_endpoints, lb_endpoints', NoEndpoint)
    /\ UNCHANGED <<lb_config, lb_index, lb_connections, notLb>>

\* LoadBalancer._health_check_loop: the health checker has answered for
\* one endpoint; the loop runs only when a health checker was set
DoHealthChecked(address, verdict) ==
    /\ lb_config.health_checker
    /\ verdict = "raises" => lb_reports < ReportLimit
    /\ lb_reports' = IF verdict = "raises" THEN lb_reports + 1 ELSE lb_reports
    /\ lb_endpoints' = [lb_endpoints EXCEPT ![address] = EndpointChecked(@, verdict)]
    /\ lb_endpoints' # lb_endpoints
    /\ lb_op' = [op |-> "other", selected |-> NoEndpoint]
    /\ lb_picks' = PicksAfter(lb_picks, lb_endpoints, lb_endpoints', NoEndpoint)
    /\ UNCHANGED <<lb_config, lb_index, lb_connections, notLb>>

\* LeastConnectionsStrategy.increment, called by the user of the balancer
DoIncrement(address) ==
    /\ lb_config.strategy = "least_connections"
    /\ SumSeq([a \in Addresses |-> ConnectionsOf(lb_connections, a)]) < MaxInflight
    /\ lb_connections' = Increment(lb_connections, address)
    /\ lb_op' = [op |-> "other", selected |-> NoEndpoint]
    /\ UNCHANGED <<lb_config, lb_endpoints, lb_index, lb_picks, lb_reports, notLb>>

\* LeastConnectionsStrategy.decrement, called by the user of the balancer
DoDecrement(address) ==
    /\ lb_config.strategy = "least_connections"
    /\ lb_connections' = Decrement(lb_connections, address)
    /\ lb_connections' # lb_connections
    /\ lb_op' = [op |-> "other", selected |-> NoEndpoint]
    /\ UNCHANGED <<lb_config, lb_endpoints, lb_index, lb_picks, lb_reports, notLb>>

\* LoadBalancer.__init__ with a strategy, an add_endpoint per address and,
\* under cfg.health_checker, set_health_checker and start()
StartLb(cfg, weights) ==
    /\ lb_config = cfg
    /\ lb_endpoints = [a \in Addresses |-> NewEndpoint(a, weights[a])]
    /\ lb_index = 0
    /\ lb_connections = [a \in {} |-> 0]
    /\ lb_op = [op |-> "none", selected |-> NoEndpoint]
    /\ lb_picks = <<>>
    /\ lb_reports = 0

RestLb ==
    StartLb([strategy |-> "round_robin", health_checker |-> FALSE],
            [a \in Addresses |-> 1])

\* ======================================================== resilient client
\* mutant of Interceptors: the retry interceptor is appended first
Interceptors_RetryFirst == <<"retry", "circuit_breaker", "adaptive_timeout">>

\* ResilientGrpcClient._setup_resilience with every feature enabled: the
\* interceptors in the order they are appended to _interceptors; the
\* channel runs the first of the list outermost
Interceptors == <<"circuit_breaker", "retry", "adaptive_timeout">>

\* interceptor a runs outside interceptor b
Wraps(a, b) ==
    \E i, j \in 1..Len(Interceptors) :
        Interceptors[i] = a /\ Interceptors[j] = b /\ i < j

\* the service names of the clients tried: create_default_fallback_manager
\* registers a handler for "claude" and none for "unknown"
ServiceNames == {"claude", "unknown"}

\* the method of the calls, "/synapse.ClaudeService/HealthCheck", as the
\* timeout manager and as the fallback manager are given it
PipeMethod == <<"", "synapse.ClaudeService", "HealthCheck">>

\* the response time of an attempt, in tenths of a second
PipeDurations == {10}

\* a logical call that has not started: attempt is the loop variable of the
\* retry interceptor; admissions, outcomes, timeouts and invocations are the
\* history of the call: the can_execute calls that admitted it, what was
\* passed to record_success ("response") and record_failure (the code),
\* the timeouts get_timeout returned for it, the calls of the transport;
\* last is what the latest attempt gave, result what the caller gets, calls
\* how many logical calls have started
NewPipeCall ==
    [pc |-> "idle", attempt |-> 0, admissions |-> 0, outcomes |-> <<>>,
     timeouts |-> <<>>, invocations |-> 0, last |-> "none", result |-> "none",
     calls |-> 0]

\* the call is over for the caller with result
PipeOver(st, result) ==
    [st EXCEPT !.pipe = [@ EXCEPT !.pc = "done", !.result = result]]

\* CircuitBreakerInterceptor before its continuation, built without a
\* fallback: <<admitted, st>>; a rejected call ends with
\* CircuitBreakerOpenError
PipeAdmit(st, t) ==
    LET r == CanExecute(st.breaker, t) IN
    IF r[1]
    THEN <<TRUE, [st EXCEPT !.breaker = r[2],
                            !.pipe = [@ EXCEPT !.admissions = @ + 1]]>>
    ELSE <<FALSE, PipeOver([st EXCEPT !.breaker = r[2]], "CircuitBreakerOpenError")>>

\* CircuitBreakerInterceptor after its continuation gave ending:
\* record_success, or record_failure(code)
PipeRecord(st, t, ending) ==
    [st EXCEPT !.breaker = IF ending = "response" THEN RecordSuccess(@, t)
                           ELSE RecordFailure(@, t, ending),
               !.pipe = [@ EXCEPT !.outcomes = Append(@, ending)]]

\* AdaptiveTimeoutInterceptor before its continuation, then the transport:
\* get_timeout for the method, and the call goes out under that timeout
PipeSend(st) ==
    [st EXCEPT !.pipe = [@ EXCEPT
        !.pc = "attempt",
        !.timeouts = Append(@, GetTimeout(tm_config, st.times, PipeMethod)),
        !.invocations = @ + 1]]

\* one pass of the retry loop from "await continuation" down to the
\* transport
PipeAttempt(st, t) ==
    IF Wraps("circuit_breaker", "retry") THEN PipeSend(st)
    ELSE LET r == PipeAdmit(st, t) IN IF r[1] THEN PipeSend(r[2]) ELSE r[2]

\* a logical call enters the outermost interceptor
PipeEnter(st, t) ==
    IF Wraps("circuit_breaker", "retry")
    THEN LET r == PipeAdmit(st, t) IN IF r[1] THEN PipeSend(r[2]) ELSE r[2]
    ELSE PipeAttempt(st, t)

\* the logical call leaves the retry interceptor with ending
PipeLeave(st, t, ending) ==
    PipeOver(IF Wraps("circuit_breaker", "retry")
             THEN PipeRecord(st, t, ending) ELSE st, ending)

\* the transport ends an attempt with ending after duration: the timeout
\* interceptor records the duration, then the retry interceptor returns
\* the response, re-raises a code that is not retryable, sleeps before
\* the next attempt, or raises the last error after the last attempt
PipeAttemptOver(st, t, ending, duration) ==
    LET timed == [st EXCEPT
                    !.times = RecordResponseTime(tm_config, @, PipeMethod, duration),
                    !.pipe = [@ EXCEPT !.last = ending]]
        seen == IF Wraps("circuit_breaker", "retry") THEN timed
                ELSE PipeRecord(timed, t, ending)
    IN  IF ending = "response"
        THEN PipeLeave([seen EXCEPT !.metrics =
                            IF SucceededByRetry(st.pipe.attempt)
                            THEN [@ EXCEPT !.successful_retries = @ + 1] ELSE @],
                       t, ending)
        ELSE IF ~IsRetryable(ending) THEN PipeLeave(seen, t, ending)
        ELSE IF AttemptsRemain(st.pipe.attempt)
        THEN [seen EXCEPT !.metrics = [@ EXCEPT !.total_retries = @ + 1],
                          !.pipe = [@ EXCEPT !.pc = "sleep"]]
        ELSE PipeLeave(seen, t, ending)

\* the values a step of the logical call works on
PipeState ==
    [breaker |-> breaker, times |-> response_times, metrics |-> retry_metrics,
     pipe |-> pipe]

\* what no step of the logical call changes
pipeFixed ==
    <<cb_config, calls, outcome, scenario, cb_op, retry_policy, rcalls,
      backoff_policy, backoffs, streamVars, poolVars, tm_config, tm_op,
      fbVars, lbVars, pipe_config>>

\* a step of the logical call ends in st
PipeStep(st) ==
    /\ breaker' = st.breaker
    /\ response_times' = st.times
    /\ retry_metrics' = st.metrics
    /\ pipe' = st.pipe
    /\ UNCHANGED <<now, pipeFixed>>

\* the caller makes a unary call on the stub of the client
PipeCall ==
    /\ pipe.pc \in {"idle", "done"}
    /\ pipe.calls < MaxPipeCalls
    /\ PipeStep(PipeEnter([PipeState EXCEPT
            !.pipe = [NewPipeCall EXCEPT !.calls = pipe.calls + 1]], now))

\* the transport answers the attempt under way, or fails it with a code
PipeAttemptEnds(ending, duration) ==
    /\ pipe.pc = "attempt"
    /\ PipeStep(PipeAttemptOver(PipeState, now, ending, duration))

\* asyncio.sleep(backoff) of the retry interceptor is over: next attempt
PipeSleepDone ==
    /\ pipe.pc = "sleep"
    /\ PipeStep(PipeAttempt([PipeState EXCEPT
            !.pipe = [@ EXCEPT !.attempt = @ + 1]], now))

\* the caller's task is cancelled during an attempt or a sleep: no
\* interceptor catches CancelledError
PipeCancelled ==
    /\ pipe.pc \in {"attempt", "sleep"}
    /\ PipeStep(PipeOver(PipeState, "cancelled"))

\* wall-clock time passes
PipeTick ==
    /\ now < MaxTime
    /\ now' = now + 1
    /\ UNCHANGED <<breaker, response_times, retry_metrics, pipe, pipeFixed>>

\* ResilientGrpcClient.__init__ for service_name, no call made yet
StartPipeline(service_name) ==
    /\ pipe_config = [service_name |-> service_name]
    /\ pipe = NewPipeCall

RestPipeline == StartPipeline("unknown")

RestExt == RestTimeout /\ RestFallback /\ RestLb /\ RestPipeline

\* ========================================================== specifications
InitCb ==
    /\ now = 0
    /\ \E cfg \in CbConfigs : StartCb(cfg)
    /\ RestRetry
    /\ RestStream
    /\ RestPool
    /\ RestExt

NextCb ==
    \/ \E c \in 1..NumCalls : UnaryIntercept(c)
    \/ \E c \in 1..NumCalls : UnarySuccess(c)
    \/ \E c \in 1..NumCalls : UnaryFailure(c)
    \/ \E c \in 1..NumCalls : UnaryCancelled(c)
    \/ Tick

SpecCb == InitCb /\ [][NextCb]_vars

InitBreakerApi ==
    /\ now = 0
    /\ \E cfg \in [failure_threshold : FailureThresholds,
                    success_threshold : Thresholds,
                    reset_timeout : DirectResetTimeouts,
                    half_open_max_calls : Thresholds,
                    fallback : {FALSE}] : StartCb(cfg)
    /\ RestRetry
    /\ RestStream
    /\ RestPool
    /\ RestExt

NextBreakerApi ==
    \/ DoCanExecute
    \/ DoRecordSuccess
    \/ \E status_code \in DirectCodes : DoRecordFailure(status_code)
    \/ BreakerTick

SpecBreakerApi == InitBreakerApi /\ [][NextBreakerApi]_vars

InitRetry ==
    /\ now = 0
    /\ \E m \in AttemptLimits : StartRetry(m)
    /\ RestCb
    /\ RestStream
    /\ RestPool
    /\ RestExt

NextRetry ==
    \/ \E c \in 1..NumRetryCalls : RetryInvoke(c)
    \/ \E c \in 1..NumRetryCalls : RetryReturns(c)
    \/ \E c \in 1..NumRetryCalls : RetryFails(c)
    \/ \E c \in 1..NumRetryCalls : RetrySleepDone(c)
    \/ \E c \in 1..NumRetryCalls : RetryCancelled(c)

SpecRetry == InitRetry /\ [][NextRetry]_vars

InitCbStream ==
    /\ now = 0
    /\ \E cfg \in {k \in CbConfigs : ~k.fallback} : StartCb(cfg)
    /\ RestRetry
    /\ RestStream
    /\ RestPool
    /\ RestExt

NextCbStream ==
    \/ \E c \in 1..NumCalls : StreamIntercept(c)
    \/ \E c \in 1..NumCalls : StreamSuccess(c)
    \/ \E c \in 1..NumCalls : StreamFailure(c)
    \/ \E c \in 1..NumCalls : StreamCancelled(c)
    \/ Tick

SpecCbStream == InitCbStream /\ [][NextCbStream]_vars

InitBackoff ==
    /\ now = 0
    /\ retry_policy = [max_attempts |-> MaxAttempts]
    /\ retry_metrics = [total_retries |-> 0, successful_retries |-> 0]
    /\ rcalls = [c \in 1..NumRetryCalls |-> IdleRetryCall]
    /\ \E policy \in BackoffPolicies : StartBackoff(policy)
    /\ RestCb
    /\ RestStream
    /\ RestPool
    /\ RestExt

NextBackoff == DoCalculateBackoff

SpecBackoff == InitBackoff /\ [][NextBackoff]_vars

InitStream ==
    /\ now = 0
    /\ \E cfg \in [checkpoint_interval : {1, 2}, max_streams : {1, 2},
                   ttl : {1}] : StartStreams(cfg)
    /\ RestCb
    /\ RestRetry
    /\ RestPool
    /\ RestExt

NextStream ==
    \/ \E stream_id \in StreamIds : DoStartStream(stream_id)
    \/ \E stream_id \in StreamIds : DoCheckpoint(stream_id)
    \/ \E stream_id \in StreamIds : DoCompleteStream(stream_id)
    \/ \E stream_id \in StreamIds : DoFailStream(stream_id)
    \/ \E w \in Wrappers : WrapperStart(w)
    \/ \E w \in Wrappers : WrapperMessage(w)
    \/ \E w \in Wrappers : WrapperComplete(w)
    \/ \E w \in Wrappers : WrapperFails(w)
    \/ \E w \in Wrappers : WrapperAbandoned(w)

SpecStream == InitStream /\ [][NextStream]_vars

InitPool ==
    /\ now = 0
    /\ \E cfg \in PoolConfigs : StartPool(cfg)
    /\ RestCb
    /\ RestRetry
    /\ RestStream
    /\ RestExt

NextPool ==
    \/ \E c \in 1..NumCallers : PoolAcquire(c)
    \/ \E c \in 1..NumCallers : PoolGet(c)
    \/ \E c \in 1..NumCallers : PoolGetTimeout(c)
    \/ \E c \in 1..NumCallers : LockAcquired(c)
    \/ \E c \in 1..NumCallers : FactoryReturns(c)
    \/ \E c \in 1..NumCallers : PutProceeds(c)
    \/ \E c \in 1..NumCallers : BodyExit(c)
    \/ \E c \in 1..NumCallers : AcquireCancelled(c)
    \/ \E c \in 1..NumCallers : GeneratorFinalized(c)
    \/ \E k \in 1..MaxConnections : HealthCheck(k)
    \/ IdlePeriodElapses
    \/ EvictIdle
    \/ PoolClose

SpecPool == InitPool /\ [][NextPool]_vars

InitTimeout ==
    /\ now = 0
    /\ \E cfg \in TimeoutConfigs : StartTimeout(cfg)
    /\ RestCb
    /\ RestRetry
    /\ RestStream
    /\ RestPool
    /\ RestFallback
    /\ RestLb
    /\ RestPipeline

NextTimeout ==
    \/ \E method \in RecordedMethods, duration \in Durations :
            DoRecordResponseTime(method, duration)
    \/ \E method \in MethodPaths : DoGetTimeout(method)

SpecTimeout == InitTimeout /\ [][NextTimeout]_vars

InitTimeoutInterceptor ==
    /\ now = 0
    /\ \E cfg \in {k \in TimeoutConfigs : k.min_timeout = 10 /\ k.percentile = 95} :
            StartTimeout(cfg)
    /\ RestCb
    /\ RestRetry
    /\ RestStream
    /\ RestPool
    /\ RestFallback
    /\ RestLb
    /\ RestPipeline

NextTimeoutInterceptor ==
    \/ \E method \in MethodPaths : TimeoutIntercept(method)
    \/ \E ending \in Endings, duration \in Durations :
            TimeoutCompletes(ending, duration)

SpecTimeoutInterceptor == InitTimeoutInterceptor /\ [][NextTimeoutInterceptor]_vars

\* the interceptors and the fallback manager as _setup_resilience builds
\* them: CircuitBreakerConfig, RetryPolicy and TimeoutConfig with their
\* defaults but for the values taken from ResilienceConfig, and
\* create_default_fallback_manager()
InitPipeline ==
    /\ now = 0
    /\ \E service_name \in ServiceNames : StartPipeline(service_name)
    /\ \E cfg \in [failure_threshold : Thresholds, success_threshold : {2},
                    reset_timeout : ResetTimeouts, half_open_max_calls : {3},
                    fallback : {FALSE}] : StartCb(cfg)
    /\ \E max_attempts \in AttemptLimits : StartRetry(max_attempts)
    /\ StartTimeout([default_timeout |-> 300, min_timeout |-> 50,
                     max_timeout |-> 1200,
                     method_timeouts |-> [m \in {"HealthCheck"} |-> 50],
                     adaptive_enabled |-> TRUE, percentile |-> 95,
                     adjustment_factor |-> 15, history_size |-> 100])
    /\ fb_config = [cache_enabled |-> TRUE, cache_ttl |-> 3000,
                    max_cache_size |-> 1000, rule_based_enabled |-> TRUE]
    /\ fb_cache = <<>>
    /\ fb_handlers = [s \in {"claude"} |-> "DEGRADED"]
    /\ fb_rules = <<>>
    /\ fb_sets = [k \in {} |-> NoResponse]
    /\ fb_op = [op |-> "none", service |-> "", result |-> NoResponse]
    /\ RestStream
    /\ RestPool
    /\ RestLb

NextPipeline ==
    \/ PipeCall
    \/ \E ending \in {"response"} \cup Codes, duration \in PipeDurations :
            PipeAttemptEnds(ending, duration)
    \/ PipeSleepDone
    \/ PipeCancelled
    \/ PipeTick

SpecPipeline == InitPipeline /\ [][NextPipeline]_vars

\* the inputs of the FallbackManager
FbMethods == {HealthCheckPath, <<<<"Create", "Plan">>>>}
FbRequests == {"", "plan"}
Patterns == {<<"Health">>, <<"Check">>}
FbConfigs ==
    {cfg \in [cache_enabled : BOOLEAN, cache_ttl : {1}, max_cache_size : {2},
              rule_based_enabled : BOOLEAN] :
        cfg.cache_enabled \/ cfg.rule_based_enabled}

InitFallback ==
    /\ now = 0
    /\ \E cfg \in FbConfigs : StartFallback(cfg)
    /\ RestCb
    /\ RestRetry
    /\ RestStream
    /\ RestPool
    /\ RestTimeout
    /\ RestLb
    /\ RestPipeline

NextFallback ==
    \/ \E yields \in HandlerYields : DoRegisterHandler("planner", yields)
    \/ \E pattern \in Patterns, yields \in RuleYields : DoRegisterRule(pattern, yields)
    \/ DoCacheSet(HealthCheckPath, NoRequest, "cached", None)
    \/ \E service_name \in {"planner", "unknown"}, method \in FbMethods,
          request \in FbRequests : DoGetFallback(service_name, method, request)
    \/ FallbackTick

SpecFallback == InitFallback /\ [][NextFallback]_vars

\* the inputs of the FallbackCache used alone
CacheRequests == {NoRequest, "", "plan"}
CacheResponses == {"a", "b"}
CacheTtls == {None, 0, 2}
CacheConfigs ==
    [cache_enabled : BOOLEAN, cache_ttl : {1}, max_cache_size : {1, 2},
     rule_based_enabled : {TRUE}]

InitFallbackCache ==
    /\ now = 0
    /\ \E cfg \in CacheConfigs : StartFallback(cfg)
    /\ RestCb
    /\ RestRetry
    /\ RestStream
    /\ RestPool
    /\ RestTimeout
    /\ RestLb
    /\ RestPipeline

NextFallbackCache ==
    \/ \E request \in CacheRequests, response \in CacheResponses, ttl \in CacheTtls :
            DoCacheSet(HealthCheckPath, request, response, ttl)
    \/ \E request \in CacheRequests : DoCacheGet(HealthCheckPath, request)
    \/ DoCacheClear
    \/ FallbackTick

SpecFallbackCache == InitFallbackCache /\ [][NextFallbackCache]_vars

\* the response times reported: they differ where the strategy reads
\* avg_response_time
ReportedTimes ==
    IF lb_config.strategy = "least_response_time" THEN ResponseTimes ELSE {1}

InitLb ==
    /\ now = 0
    /\ \E cfg \in [strategy : Strategies, health_checker : BOOLEAN],
          weights \in WeightLists :
          /\ (cfg.strategy # "weighted" => weights = [a \in Addresses |-> 1])
          /\ StartLb(cfg, weights)
    /\ RestCb
    /\ RestRetry
    /\ RestStream
    /\ RestPool
    /\ RestTimeout
    /\ RestFallback
    /\ RestPipeline

NextLb ==
    \/ DoGetEndpoint
    \/ \E address \in Addresses, response_time \in ReportedTimes :
            DoLbRecordSuccess(address, response_time)
    \/ \E address \in Addresses : DoLbRecordFailure(address)
    \/ \E address \in Addresses, verdict \in Verdicts : DoHealthChecked(address, verdict)
    \/ \E address \in Addresses : DoIncrement(address)
    \/ \E address \in Addresses : DoDecrement(address)

SpecLb == InitLb /\ [][NextLb]_vars

\* ---------------------------------------------------------- breaker claims
InFlight == {c \in 1..NumCalls : calls[c].pc = "inflight"}

\* C2: while the breaker reads Open (reset_timeout not yet elapsed since the
\* last counted failure), a call entering intercept_unary_unary does not
\* reach the continuation: it ends at once with CircuitBreakerOpenError, or
\* with the fallback's result when a fallback is configured.
C2_OpenNeverInvokes ==
    [][\A c \in 1..NumCalls :
        (StateAt(breaker, now) = "open" /\ calls[c].pc = "idle" /\ calls'[c].pc # "idle")
        => /\ calls'[c].pc = "done"
           /\ InFlight' = InFlight
           /\ outcome'.result = IF cb_config.fallback THEN "fallback"
                                 ELSE "CircuitBreakerOpenError"]_vars

\* C2 witness: a call was rejected with CircuitBreakerOpenError while Open
C2_Witness ==
    /\ StateAt(breaker, now) = "open"
    /\ outcome.result = "CircuitBreakerOpenError"
    /\ \E c \in 1..NumCalls : calls[c].pc = "done"

\* C3 (as claimed): whenever the breaker reads HalfOpen, the continuations
\* in flight that can_execute admitted as half-open probes number at most
\* half_open_max_calls, and the half-open counter is at most half_open_max_calls.
C3_HalfOpenInflightBounded ==
    /\ breaker.half_open_calls <= cb_config.half_open_max_calls
    /\ StateAt(breaker, now) = "half_open"
        => Cardinality({c \in InFlight : calls[c].admitted_in = "half_open"})
              <= cb_config.half_open_max_calls

\* C4: after failure_threshold counted failures from Closed, reset_timeout
\* elapsing, and success_threshold repetitions of (admitted check,
\* record_success), the breaker is Closed with failure_count, success_count
\* and the half-open counter all zero.
C4_TripRecoverClosesZeroed ==
    scenario.phase = "done"
    => /\ breaker.state = "closed"
       /\ StateAt(breaker, now) = "closed"
       /\ breaker.failure_count = 0
       /\ breaker.success_count = 0
       /\ breaker.half_open_calls = 0

\* C4 witness: the sequence has run to its end with both thresholds at 2
C4_Witness ==
    /\ scenario.phase = "done"
    /\ cb_config.failure_threshold = 2
    /\ cb_config.success_threshold = 2
    /\ breaker.total_failures = 2
    /\ breaker.total_successes = 2

\* C14: while the breaker is Closed, a counted failure adds one to
\* failure_count and opens the breaker exactly when that makes
\* failure_count >= failure_threshold; a success takes one off
\* failure_count, not below zero, and leaves the breaker Closed; nothing
\* else opens a Closed breaker; so Closed implies
\* 0 <= failure_count < failure_threshold.
C14_ClosedFailureCounting ==
    /\ [](breaker.state = "closed"
            => /\ 0 <= breaker.failure_count
               /\ breaker.failure_count < cb_config.failure_threshold)
    /\ [][breaker.state = "closed" =>
            /\ breaker'.total_failures = breaker.total_failures + 1
                => /\ breaker'.failure_count = breaker.failure_count + 1
                   /\ breaker'.state =
                        IF breaker.failure_count + 1 >= cb_config.failure_threshold
                        THEN "open" ELSE "closed"
            /\ breaker'.total_successes = breaker.total_successes + 1
                => /\ breaker'.failure_count = Max(0, breaker.failure_count - 1)
                   /\ breaker'.state = "closed"
            /\ breaker'.state = "open"
                => breaker'.total_failures = breaker.total_failures + 1]_vars

\* C14 witness: under failure_threshold 3 two counted failures, a success
\* and then two more counted failures have opened the breaker once
C14_Witness ==
    /\ cb_config.failure_threshold = 3
    /\ breaker.state = "open"
    /\ breaker.state_changes = 1
    /\ breaker.failure_count = 3
    /\ breaker.total_failures = 4
    /\ breaker.total_successes = 1
    /\ cb_op.op = "record_failure"

\* C15: a counted failure recorded at time now while the breaker reads
\* HalfOpen leaves it stored as Open with the timeout running from now:
\* at every time before now + reset_timeout the state reads Open and
\* can_execute rejects.
C15_HalfOpenFailureReopens ==
    [][(StateAt(breaker, now) = "half_open"
          /\ breaker'.total_failures = breaker.total_failures + 1)
        => /\ breaker'.state = "open"
           /\ breaker'.last_failure_time = now
           /\ \A t \in now..MaxTime :
                t - now < cb_config.reset_timeout
                    => /\ StateAt(breaker', t) = "open"
                       /\ ~CanExecute(breaker', t)[1]]_vars

\* C15 witness: under reset_timeout 2 a counted failure was just recorded
\* on a breaker that read HalfOpen, and it reads Open and rejects
C15_Witness ==
    /\ cb_config.reset_timeout = 2
    /\ cb_op.op = "record_failure"
    /\ cb_op.code \in failure_status_codes
    /\ cb_op.was = "half_open"
    /\ StateAt(breaker, now) = "open"
    /\ ~CanExecute(breaker, now)[1]

\* C17: record_failure with a status code outside failure_status_codes
\* changes no field of the breaker (state, failure_count, success_count,
\* last_failure_time, the totals), whatever state the breaker is in, and
\* the state it reads as stays the same.
C17_UncountedFailureChangesNothing ==
    [][(cb_op'.op = "record_failure" /\ cb_op'.code # "None"
          /\ cb_op'.code \notin failure_status_codes)
        => /\ breaker' = breaker
           /\ StateAt(breaker', now') = StateAt(breaker, now)]_vars

\* C17 witness: NOT_FOUND was just recorded on a breaker that had tripped
\* and read HalfOpen
C17_Witness ==
    /\ cb_op.op = "record_failure"
    /\ cb_op.code = "NOT_FOUND"
    /\ cb_op.was = "half_open"
    /\ StateAt(breaker, now) = "half_open"
    /\ breaker.total_failures = cb_config.failure_threshold
    /\ breaker.total_calls = breaker.total_failures

\* C16 (as claimed): the half-open counter equals the number of calls
\* admitted as half-open probes whose continuation is still running.
C16_HalfOpenSlotGivenBack ==
    breaker.half_open_calls
        = Cardinality({c \in InFlight : calls[c].admitted_in = "half_open"})

\* C33 (as claimed): when the breaker comes to read HalfOpen, and when it
\* re-opens from HalfOpen, success_count and the half-open counter are 0.
C33_EntryZeroesCounters ==
    [][((\/ (StateAt(breaker, now) # "half_open"
               /\ StateAt(breaker', now') = "half_open")
         \/ (StateAt(breaker, now) = "half_open"
               /\ StateAt(breaker', now') = "open"))
        => (breaker'.success_count = 0 /\ breaker'.half_open_calls = 0))]_vars

\* C34 (as claimed): a stream call reaches the continuation only when
\* can_execute admitted it.
C34_StreamOnlyAdmitted ==
    [][\A c \in 1..NumCalls :
          (calls[c].pc = "idle" /\ calls'[c].pc = "inflight")
              => CanExecute(breaker, now)[1]]_vars

\* C35 (as claimed): the breaker never gets stuck rejecting.  A state
\* where the stored state is OPEN, the half-open counter has reached
\* half_open_max_calls and no admitted call is running is stuck: at every
\* later time can_execute reads Open or HalfOpen at capacity and returns
\* false, and with no call admitted nothing is recorded that could change
\* the counter or the state.
C35_NeverStuckRejecting ==
    ~(/\ InFlight = {}
      /\ breaker.state = "open"
      /\ breaker.half_open_calls >= cb_config.half_open_max_calls)

\* ------------------------------------------------------------ retry claims
\* C8: a unary call invokes the continuation at most max_attempts times;
\* when every attempt fails with a retryable code it invokes it exactly
\* max_attempts times, sleeps max_attempts - 1 times (not after the last
\* failure) and raises the last error; with max_attempts = 1 there is one
\* invocation and no sleep.
C8_AttemptsBounded ==
    \A c \in 1..NumRetryCalls :
        LET r == rcalls[c] IN
        /\ r.invocations <= retry_policy.max_attempts
        /\ (r.pc = "done" /\ r.result # "cancelled"
              /\ \A i \in 1..Len(r.history) : IsRetryable(r.history[i]))
           => /\ r.invocations = retry_policy.max_attempts
              /\ Len(r.history) = retry_policy.max_attempts
              /\ r.sleeps = retry_policy.max_attempts - 1
              /\ r.result = r.history[Len(r.history)]
        /\ (r.pc = "done" /\ retry_policy.max_attempts = 1)
           => r.invocations = 1 /\ r.sleeps = 0

\* C8 witness: three attempts all failed with retryable codes and the call ended
C8_Witness ==
    \E c \in 1..NumRetryCalls :
        /\ rcalls[c].pc = "done"
        /\ retry_policy.max_attempts = 3
        /\ rcalls[c].history = <<"UNAVAILABLE", "ABORTED", "UNAVAILABLE">>
        /\ rcalls[c].sleeps = 2

\* ------------------------------------------------------------- pool claims
\* the callers whose body is running
InBody == {c \in 1..NumCallers : pcallers[c].pc = "body"}

\* no call of acquire, no release and no put is under way
PoolQuiescent ==
    \A c \in 1..NumCallers : pcallers[c].pc \in {"idle", "body", "done"}

\* C1 (as claimed): a connection yielded to a caller whose scope has not
\* exited is yielded to no second caller and is not in the idle queue.
C1_YieldedConnectionExclusive ==
    \A c \in InBody :
        /\ pcallers[c].pooled \notin Range(pool.queue)
        /\ \A d \in InBody : d # c => pcallers[d].pooled # pcallers[c].pooled

\* C5 (as claimed, and only at the states where no acquire or release is
\* under way): on an initialized pool that is not closed,
\* min_size <= current_size <= max_size.
C5_SizeWithinBounds ==
    (~pool.closed /\ PoolQuiescent)
        => /\ pool_config.min_size <= Len(pool.all_connections)
           /\ Len(pool.all_connections) <= pool_config.max_size

\* C6 (as claimed): once the pool is closed no acquire yields a connection
\* to its caller and no acquire starts the factory.
C6_ClosedPoolGivesNothing ==
    [][\A c \in 1..NumCallers :
          /\ (pcallers'[c].pc = "body" /\ pcallers[c].pc # "body")
                => ~pool.closed
          /\ (pcallers'[c].pc \in {"replace_factory", "grow_factory"}
                /\ pcallers'[c].pc # pcallers[c].pc)
                => ~pool.closed]_vars

\* C7 (as claimed): on a pool that is not closed, the caller whose
\* async-with statement ended last, after its body ran, saw what its body
\* ended with, and the connection it was handed went back into the idle
\* queue exactly once.
C7_ReleasedOnceOwnExit ==
    (pool_outcome.exit # "none" /\ ~pool.closed)
        => /\ pool_outcome.seen = pool_outcome.exit
           /\ pool_outcome.puts = 1

\* the connections some caller's body holds
HeldConnections == {pcallers[c].pooled : c \in InBody}

\* C12 (as claimed, its first half): when wait_for times out for a caller
\* while current_size = max_size and every connection is held, that
\* acquire fails with the pool-exhausted error in that step, and
\* current_size and the idle queue stay as they were.
C12_ExhaustedAtTimeout ==
    [][\A c \in 1..NumCallers :
          (/\ pcallers[c].pc = "getting" /\ pool.queue = <<>>
           /\ Len(pool.all_connections) = pool_config.max_size
           /\ Range(pool.all_connections) \subseteq HeldConnections
           /\ pcallers'[c].pc # "getting"
           /\ ~(pcallers'[c].pc = "done" /\ pool_outcome'.seen = "cancel"))
          => /\ pcallers'[c].pc = "done"
             /\ pool_outcome'.seen = "PoolExhausted"
             /\ pool'.all_connections = pool.all_connections
             /\ pool'.queue = pool.queue]_vars

\* C13 (as claimed): whenever no acquire or release is under way (close
\* and the maintenance steps are single steps here),
\* total_created - total_destroyed = current_size.
C13_CreatedMinusDestroyedIsSize ==
    PoolQuiescent
        => pool.total_created - pool.total_destroyed = Len(pool.all_connections)

\* C18: a call whose continuation fails with a non-retryable code on its
\* first attempt ends there: one invocation, no sleep, no on_retry call,
\* that same error raised; and the step in which a call ends with a
\* non-retryable error leaves total_retries and successful_retries as they
\* were.
C18_NonRetryableShortCircuit ==
    /\ [](\A c \in 1..NumRetryCalls :
            LET r == rcalls[c] IN
            (Len(r.history) >= 1 /\ r.history[1] \in Codes \ retryable_status_codes)
            => /\ r.pc = "done"
               /\ r.invocations = 1
               /\ r.sleeps = 0
               /\ r.on_retry = <<>>
               /\ r.history = <<r.history[1]>>
               /\ r.result = r.history[1])
    /\ [][\A c \in 1..NumRetryCalls :
            (rcalls[c].pc = "awaiting" /\ rcalls'[c].pc = "done"
                /\ rcalls'[c].result \in Codes \ retryable_status_codes)
            => retry_metrics' = retry_metrics]_vars

\* C18 witness: under max_attempts 3 a call ended with NOT_FOUND after one
\* invocation
C18_Witness ==
    \E c \in RetryDone :
        /\ retry_policy.max_attempts = 3
        /\ rcalls[c].history = <<"NOT_FOUND">>
        /\ rcalls[c].result = "NOT_FOUND"
        /\ rcalls[c].invocations = 1

\* the retryable failures of the calls c..NumRetryCalls that were followed
\* by another attempt or by the sleep before it
RECURSIVE RetriesFrom(_)
RetriesFrom(c) ==
    IF c > NumRetryCalls THEN 0 ELSE rcalls[c].sleeps + RetriesFrom(c + 1)

\* C19: a call that returned a response after j retryable failures
\* (0 <= j < max_attempts) made exactly j + 1 invocations, one at a time,
\* slept j times and called on_retry with 1..j in order; total_retries is
\* the sum of the j over the calls, and successful_retries the number of
\* calls that returned a response with j >= 1.
C19_SucceedsAfterRetries ==
    /\ \A c \in RetryDone :
        LET r == rcalls[c]
            j == Len(r.history) - 1
        IN  r.result = "response"
            => /\ 0 <= j /\ j < retry_policy.max_attempts
               /\ \A i \in 1..j : r.history[i] \in retryable_status_codes
               /\ r.history[j + 1] = "response"
               /\ r.invocations = j + 1
               /\ r.sleeps = j
               /\ r.on_retry = [i \in 1..j |-> i]
    /\ retry_metrics.total_retries = RetriesFrom(1)
    /\ retry_metrics.successful_retries
         = Cardinality({c \in RetryDone : /\ rcalls[c].result = "response"
                                          /\ Len(rcalls[c].history) >= 2})

\* C19 witness: attempts 1 and 2 failed with UNAVAILABLE, attempt 3
\* returned, and the counters read {total: 2, successful: 1}
C19_Witness ==
    \E c \in RetryDone :
        /\ rcalls[c].history = <<"UNAVAILABLE", "UNAVAILABLE", "response">>
        /\ rcalls[c].on_retry = <<1, 2>>
        /\ retry_metrics = [total_retries |-> 2, successful_retries |-> 1]

\* C20: the backoff before retry k has base_k =
\* min(initial_backoff * multiplier^k, max_backoff) <= max_backoff and lies
\* in [base_k * (1 - jitter), base_k * (1 + jitter)]; with jitter = 0 it is
\* exactly base_k.  (Tenths of a second; jitter in tenths.)
C20_BackoffWithinJitter ==
    \A i \in 1..Len(backoffs) :
        LET k == i - 1
            grown == backoff_policy.initial_backoff
                        * Pow(backoff_policy.backoff_multiplier, k)
            base == IF grown <= backoff_policy.max_backoff THEN grown
                    ELSE backoff_policy.max_backoff
        IN  /\ base <= backoff_policy.max_backoff
            /\ base * (10 - backoff_policy.jitter) <= backoffs[i]
            /\ backoffs[i] <= base * (10 + backoff_policy.jitter)
            /\ backoff_policy.jitter = 0 => backoffs[i] = 10 * base

\* C20 witness: initial 2 s, multiplier 3, cap 4 s, jitter 0.2: the backoff
\* of retry 0 is 2 s less 0.4 s, and that of retry 1 is the capped 4 s
\* (not 6 s) plus 0.8 s
C20_Witness ==
    /\ backoff_policy = [initial_backoff |-> 2, max_backoff |-> 4,
                         backoff_multiplier |-> 3, jitter |-> 2]
    /\ Len(backoffs) >= 2
    /\ backoffs[1] = 16
    /\ backoffs[2] = 48

\* the connections made so far: those whose factory call has returned
MadeConnections == 1..pool.made

\* how often connection k sits in the idle queue
TimesQueued(k) == Cardinality({i \in 1..Len(pool.queue) : pool.queue[i] = k})

\* the callers whose body holds connection k
HoldersOf(k) == {c \in InBody : pcallers[c].pooled = k}

\* connection k has been through _destroy_connection
IsDestroyed(k) == k \notin Range(pool.all_connections)

\* C30 (as claimed, and only at the states where no acquire or release is
\* under way): every connection made is in exactly one of the idle queue
\* (once), one caller's hand, or destroyed; a destroyed connection is
\* neither in the idle queue nor in a caller's hand; and the idle queue is
\* no longer than current_size.
C30_ExactlyOnePlace ==
    PoolQuiescent =>
        /\ \A k \in MadeConnections :
              IF IsDestroyed(k)
              THEN TimesQueued(k) = 0 /\ HoldersOf(k) = {}
              ELSE TimesQueued(k) + Cardinality(HoldersOf(k)) = 1
        /\ Len(pool.queue) <= Len(pool.all_connections)

\* the connections a step takes out of _all_connections
RemovedByStep == Range(pool.all_connections) \ Range(pool'.all_connections)

\* C31 (as claimed): a pass of the maintenance loop destroys only
\* connections that sit in the idle queue with idle time > max_idle_time,
\* never one a caller holds, and leaves current_size >= min_size.
C31_EvictsOnlyIdle ==
    [][EvictIdle =>
          /\ \A k \in RemovedByStep :
                /\ k \in pool.stale
                /\ k \in Range(pool.queue)
                /\ k \notin HeldConnections
          /\ Len(pool'.all_connections) >= pool_config.min_size]_vars

\* C32 (as claimed): a caller whose wait on the empty idle queue has timed
\* out while current_size < max_size grows the pool without waiting for
\* another caller to release: it never waits for the lock while the body
\* of another caller holds it.
C32_GrowsWithoutWaiting ==
    \A c \in 1..NumCallers :
        (/\ pcallers[c].pc = "grow_lock"
         /\ ~pcallers[c].second
         /\ pool.queue = <<>>
         /\ Len(pool.all_connections) < pool_config.max_size)
        => ~(\E d \in InBody : pool.lock = d)

\* ----------------------------------------------------------- stream claims
\* C9 (as claimed): a wrapper iterated for a stream_id whose stored state
\* was not completed and held a checkpoint, with a resume_factory given,
\* takes its stream from resume_factory(last_sequence) of that checkpoint
\* and numbers on from last_sequence.
C9_ResumesFromCheckpoint ==
    \A w \in Wrappers :
        (wrappers[w].pc # "new" /\ wrappers[w].resumable # None
            /\ wrappers[w].has_resume_factory)
        => /\ wrappers[w].source = "resume_factory"
           /\ wrappers[w].resume_from = wrappers[w].resumable
           /\ wrappers[w].sequence >= wrappers[w].resumable

\* C10: for every stream whose state is completed, get_resume_point returns
\* None, whatever checkpoints it holds.
C10_CompletedNoResumePoint ==
    \A i \in 1..Len(streams) :
        streams[i].completed => GetResumePoint(streams, streams[i].stream_id) = NoCheckpoint

\* C10 witness: a completed stream that holds two checkpoints
C10_Witness ==
    \E i \in 1..Len(streams) :
        /\ streams[i].completed
        /\ Len(streams[i].checkpoints) = 2
        /\ GetResumePoint(streams, streams[i].stream_id) = NoCheckpoint

\* C11 (as claimed): for every stream whose error has been set by
\* fail_stream, can_resume is false and get_resume_point returns None,
\* whatever checkpoints it holds.
C11_FailedNoResumePoint ==
    \A i \in 1..Len(streams) :
        streams[i].error # "None"
            => /\ ~CanResume(streams[i])
               /\ GetResumePoint(streams, streams[i].stream_id) = NoCheckpoint

\* the sequences of the checkpoints stored in a stream state
StoredSequences(state) ==
    {state.checkpoints[i].last_sequence : i \in 1..Len(state.checkpoints)}

\* the largest element of a non-empty set of numbers
Largest(S) == CHOOSE x \in S : \A y \in S : y <= x

\* C24 (as claimed): for a started stream that is not completed and has
\* checkpoints, the last_sequence of get_resume_point is the largest
\* sequence a checkpoint was stored for.
C24_ResumePointIsLargest ==
    \A i \in 1..Len(streams) :
        (~streams[i].completed /\ streams[i].checkpoints # <<>>)
        => GetResumePoint(streams, streams[i].stream_id).last_sequence
              = Largest(StoredSequences(streams[i]))

\* C25: a call checkpoint(stream_id, sequence, _, progress_percent) on a
\* known stream appends one checkpoint with this sequence and returns it
\* iff sequence % checkpoint_interval = 0 or progress_percent >= 100;
\* otherwise it appends nothing and returns None; for an unknown stream_id
\* it changes nothing and returns None; no other stream changes.
C25_StoresIffIntervalOrDone ==
    [][\A stream_id \in StreamIds, sequence \in SequenceNumbers,
          progress_percent \in Progress :
          CheckpointCall(stream_id, sequence, progress_percent)
          => LET i == IndexOf(streams, stream_id)
                 due == \/ sequence % sc_config.checkpoint_interval = 0
                        \/ progress_percent >= 100
                 made == [last_sequence |-> sequence,
                          progress_percent |-> progress_percent]
                 returned == CheckpointReturn(streams, stream_id, sequence,
                                              progress_percent)
             IN  IF i = 0
                 THEN streams' = streams /\ returned = NoCheckpoint
                 ELSE /\ Len(streams') = Len(streams)
                      /\ \A j \in 1..Len(streams) :
                            j # i => streams'[j] = streams[j]
                      /\ due => /\ streams'[i].checkpoints
                                     = Append(streams[i].checkpoints, made)
                                /\ returned = made
                      /\ ~due => /\ streams'[i].checkpoints = streams[i].checkpoints
                                 /\ returned = NoCheckpoint]_vars

\* C25 witness: under checkpoint_interval 2 the manager, called directly,
\* holds a checkpoint of sequence 1, stored because progress was 100
C25_Witness ==
    /\ sc_config.checkpoint_interval = 2
    /\ wrappers[1].pc = "new"
    /\ \E i \in 1..Len(streams) :
          /\ streams[i].checkpoints
                = <<[last_sequence |-> 1, progress_percent |-> 100]>>
          /\ streams[i].total_messages = 2

\* C26 (as claimed): the sequences of the checkpoints stored for a stream
\* are non-decreasing in list order, whatever the order of the checkpoint
\* calls.
C26_SequencesNonDecreasing ==
    \A i \in 1..Len(streams) :
        \A j, k \in 1..Len(streams[i].checkpoints) :
            j < k => streams[i].checkpoints[j].last_sequence
                        <= streams[i].checkpoints[k].last_sequence

\* C39 (as claimed): a wrapper that takes its stream from stream_factory
\* numbers the messages 0, 1, 2, ...: the sequence it passed to
\* checkpoint() for the latest of the k messages received is k - 1.
C39_NumbersFromZero ==
    \A w \in Wrappers :
        (wrappers[w].source = "stream_factory" /\ wrappers[w].received > 0)
        => wrappers[w].sequence = wrappers[w].received - 1

\* ---------------------------------------------------------- timeout claims
\* the last call was get_timeout, adaptive is enabled and the window the
\* call consulted held at least 10 samples
AdaptiveEstimate ==
    /\ tm_op.op = "get_timeout"
    /\ tm_config.adaptive_enabled
    /\ Len(Window(response_times, ExtractMethodName(tm_op.method))) >= 10

\* min(max_timeout, 2 * base_timeout) for the method of the last call
UpperClamp ==
    Min(tm_config.max_timeout,
        2 * BaseTimeout(tm_config, ExtractMethodName(tm_op.method)))

\* C21 (as claimed): for every configuration, an adaptive estimate r over a
\* window of at least 10 samples has
\* min_timeout <= r <= min(max_timeout, 2 * base_timeout).
C21_Original ==
    AdaptiveEstimate
        => /\ tm_config.min_timeout <= tm_op.result
           /\ tm_op.result <= UpperClamp

\* C21 (amended): an adaptive estimate r over a window of at least 10
\* samples has min_timeout <= r <= max(min_timeout, min(max_timeout,
\* 2 * base_timeout)): the upper bound of the claim holds whenever
\* min_timeout does not exceed it, and r = min_timeout otherwise.
C21_TimeoutWithinClamp ==
    AdaptiveEstimate
        => /\ tm_config.min_timeout <= tm_op.result
           /\ tm_op.result <= Max(tm_config.min_timeout, UpperClamp)

\* C21 witness: with base 1 s, min_timeout 1 s and a slow window, the
\* estimate of "/synapse.Analyst/Analyze" is cut to twice the base
C21_Witness ==
    /\ AdaptiveEstimate
    /\ Len(tm_op.method) = 3
    /\ tm_config.min_timeout = 10
    /\ BaseTimeout(tm_config, <<"Analyze">>) = 10
    /\ tm_op.result = 20

\* C36 (as claimed): an intercepted call that ends with a response or an
\* AioRpcError adds its duration as one sample to the window get_timeout
\* consults for the method of the call.
C36_SampleInConsultedWindow ==
    [][\A ending \in {"response", "AioRpcError"}, duration \in Durations :
          TimeoutCompletes(ending, duration)
              => LET key == ExtractMethodName(tm_op.method)
                     history == Append(Window(response_times, key), duration)
                 IN  Window(response_times', key) =
                        IF Len(history) > tm_config.history_size
                        THEN Tail(history) ELSE history]_vars

\* --------------------------------------------------------- fallback claims
\* the value of the unexpired cache entry for (method, request), None when
\* there is no such entry
LiveCacheValue(method, request) ==
    LET live == {i \in 1..Len(fb_cache) :
                    /\ fb_cache[i].key = MakeKey(method, request)
                    /\ now - fb_cache[i].timestamp <= fb_cache[i].ttl}
    IN  IF live = {} THEN NoResponse ELSE fb_cache[CHOOSE i \in live : TRUE].value

\* what the handler registered for the service name gives, None when none
\* is registered
HandlerValue(service_name) ==
    IF service_name \in DOMAIN fb_handlers THEN fb_handlers[service_name]
    ELSE NoResponse

\* the first result that is not None
FirstNonNull(a, b, c) ==
    IF a # NoResponse THEN a ELSE IF b # NoResponse THEN b ELSE c

\* the service handler is reached and raises
HandlerRaises(service_name, method, request) ==
    /\ LiveCacheValue(method, request) = NoResponse
    /\ HandlerValue(service_name) = "raises"

\* C22 (as claimed): get_fallback returns the first non-null result of the
\* unexpired cache entry, the handler registered for the service and the
\* rule chain, in this order, and null only when all three yield null.
C22_Original ==
    [][\A service_name \in {"planner", "unknown"}, method \in FbMethods,
          request \in FbRequests :
          (DoGetFallback(service_name, method, request)
              /\ ~HandlerRaises(service_name, method, request))
          => fb_op'.result = FirstNonNull(LiveCacheValue(method, request),
                                          HandlerValue(service_name),
                                          RuleHandle(fb_rules, 1, method))]_vars

\* C22 (amended): get_fallback returns the first non-null result of the
\* unexpired cache entry, the handler registered for the service and, when
\* rule_based_enabled is set, the rule chain, in this order; it returns null
\* only when all of these yield null, and a live cache entry always wins.
C22_FirstNonNullInOrder ==
    [][\A service_name \in {"planner", "unknown"}, method \in FbMethods,
          request \in FbRequests :
          (DoGetFallback(service_name, method, request)
              /\ ~HandlerRaises(service_name, method, request))
          => fb_op'.result =
                FirstNonNull(LiveCacheValue(method, request),
                             HandlerValue(service_name),
                             IF fb_config.rule_based_enabled
                             THEN RuleHandle(fb_rules, 1, method)
                             ELSE NoResponse)]_vars

\* C22 witness: get_fallback for the service "planner" has returned the
\* cached response while a handler that answers is registered for
\* "planner" and a rule that answers matches the cached method
C22_Witness ==
    /\ fb_op.op = "get_fallback"
    /\ fb_op.service = "planner"
    /\ fb_op.result = "cached"
    /\ HandlerValue("planner") = "handler"
    /\ RuleHandle(fb_rules, 1, HealthCheckPath) # NoResponse
    /\ fb_config.rule_based_enabled

\* C23: with caching enabled, after set(k, v) and as long as no eviction
\* and no clear has removed k, a get(k) at a time with
\* now - created_ts <= ttl returns v, and a get(k) at a time with
\* now - created_ts > ttl returns None and leaves no entry for k.
C23_SetThenGet ==
    [][\A request \in CacheRequests :
          LET k == MakeKey(HealthCheckPath, request)
          IN  (/\ DoCacheGet(HealthCheckPath, request)
               /\ fb_config.cache_enabled
               /\ k \in DOMAIN fb_sets
               /\ ~fb_sets[k].removed)
              => IF now - fb_sets[k].timestamp <= fb_sets[k].ttl
                 THEN fb_op'.result = fb_sets[k].value
                 ELSE /\ fb_op'.result = NoResponse
                      /\ k \notin Keys(fb_cache')]_vars

\* C23 witness: one key was set, never evicted or cleared, its ttl has run
\* out, and the get that followed returned None and removed the entry
C23_Witness ==
    /\ fb_op.op = "get"
    /\ fb_op.result = NoResponse
    /\ fb_cache = <<>>
    /\ fb_config.cache_enabled
    /\ \E k \in DOMAIN fb_sets :
          /\ DOMAIN fb_sets = {k}
          /\ ~fb_sets[k].removed
          /\ now - fb_sets[k].timestamp > fb_sets[k].ttl

\* ---------------------------------------------------- load balancer claims
\* C27: under every strategy get_endpoint returns only an endpoint whose
\* healthy flag is true, and returns None exactly when no endpoint is
\* healthy.
C27_OnlyHealthySelected ==
    lb_op.op = "get_endpoint"
        => /\ lb_op.selected # NoEndpoint
                => lb_op.selected \in HealthySet(lb_endpoints)
           /\ lb_op.selected = NoEndpoint <=> HealthySet(lb_endpoints) = {}

\* C27 witness: under LeastResponseTime the first endpoint has the only
\* average and is unhealthy, and get_endpoint has returned the second
C27_Witness ==
    /\ lb_config.strategy = "least_response_time"
    /\ lb_op.op = "get_endpoint"
    /\ ~lb_endpoints[1].healthy
    /\ HasAverage(lb_endpoints[1])
    /\ lb_op.selected = 2

\* the last n elements of a sequence
LastN(s, n) == SubSeq(s, Len(s) - n + 1, Len(s))

\* C28: under RoundRobin, while the healthy set of size k does not change,
\* any k consecutive selections return each healthy endpoint exactly once.
C28_RoundRobinVisitsAll ==
    LET k == Cardinality(HealthySet(lb_endpoints))
    IN  (lb_config.strategy = "round_robin" /\ k > 0 /\ Len(lb_picks) >= k)
        => /\ {LastN(lb_picks, k)[i] : i \in 1..k} = HealthySet(lb_endpoints)
           /\ \A i, j \in 1..k :
                i # j => LastN(lb_picks, k)[i] # LastN(lb_picks, k)[j]

\* C28 witness: two of the three endpoints are healthy, the first is not,
\* and three selections were made since the healthy set last changed
C28_Witness ==
    /\ lb_config.strategy = "round_robin"
    /\ HealthySet(lb_endpoints) = {2, 3}
    /\ Len(lb_picks) = 3

\* C29: on every endpoint failure_count >= 3 implies healthy = false, and
\* every record_success sets the failure_count of its endpoint to 0.
C29_ThreeFailuresUnhealthy ==
    /\ [](\A a \in Addresses :
            lb_endpoints[a].failure_count >= 3 => ~lb_endpoints[a].healthy)
    /\ [][\A a \in Addresses, response_time \in ResponseTimes :
            DoLbRecordSuccess(a, response_time)
                => lb_endpoints'[a].failure_count = 0]_vars

\* C29 witness: an endpoint of a balancer with a health checker has
\* failure_count 3 and is unhealthy
C29_Witness ==
    /\ lb_config.health_checker
    /\ \E a \in Addresses :
          /\ lb_endpoints[a].failure_count = 3
          /\ ~lb_endpoints[a].healthy

\* C40 (as claimed): on a balancer that has no health checker, where only
\* record_failure makes an endpoint unhealthy, record_success for an
\* endpoint leaves it healthy, so that the strategies can select it again.
C40_SuccessRestoresEndpoint ==
    [][\A address \in Addresses, response_time \in ResponseTimes :
          (~lb_config.health_checker /\ DoLbRecordSuccess(address, response_time))
          => lb_endpoints'[address].healthy]_vars

\* ----------------------------------------------------------- client claims
\* the logical call is over with the outcome of its final attempt
PipeCompleted == pipe.pc = "done" /\ pipe.result \in {"response"} \cup Codes

\* C37: in the client pipeline a logical unary call passes the admission
\* check of the breaker once, whatever the number n of its attempts; while
\* it runs the breaker is given no outcome and every attempt made so far
\* got a timeout of its own from get_timeout; when it is over the breaker
\* was given one outcome, that of the final attempt
C37_OneAdmissionPerCall ==
    /\ pipe.pc \in {"attempt", "sleep"} =>
            /\ pipe.admissions = 1
            /\ pipe.outcomes = <<>>
            /\ Len(pipe.timeouts) = pipe.invocations
    /\ PipeCompleted =>
            /\ pipe.admissions = 1
            /\ pipe.outcomes = <<pipe.last>>
            /\ pipe.result = pipe.last
            /\ pipe.invocations = pipe.attempt + 1
            /\ Len(pipe.timeouts) = pipe.invocations

\* a call that made three attempts is over with the failure of the third
C37_Witness ==
    /\ PipeCompleted
    /\ pipe.invocations = 3
    /\ pipe.result = "UNAVAILABLE"
    /\ pipe.admissions = 1

\* the method of the calls as the fallback manager is given it
PipeFallbackMethod == <<<<>>, <<"synapse.ClaudeService">>, <<"Health", "Check">>>>

\* what FallbackManager.get_fallback resolves the call of the client to
PipeResolution ==
    GetFallback(fb_config, fb_cache, fb_handlers, fb_rules,
                pipe_config.service_name, PipeFallbackMethod, "HealthCheckRequest", now).result

\* C38: a call the breaker rejected is answered with the resolution of the
\* fallback manager when that is not None and with CircuitBreakerOpenError
\* when it is None; an admitted call is never answered by the fallback
C38_RejectionAnsweredByFallback ==
    pipe.pc = "done" =>
        IF pipe.admissions = 0
        THEN pipe.result = IF PipeResolution # NoResponse THEN PipeResolution
                           ELSE "CircuitBreakerOpenError"
        ELSE pipe.result \in {"response", "cancelled"} \cup Codes
====
